---- MODULE Spec2Model ----
(***************************************************************************)
(* A model of the discrete-event engine of blockchain-sim                  *)
(* (src/src/simulator.rs), its block pool (blockchain.rs, block.rs), its   *)
(* task queue (task.rs, a priority_queue::PriorityQueue keyed by -time)    *)
(* and the honest and selfish strategies (mining_strategy.rs).             *)
(***************************************************************************)
EXTENDS Integers, Sequences, FiniteSets, TLC

(***************************************************************************)
(* Bounds of the model.                                                    *)
(***************************************************************************)
\* Latest simulated time at which a mining attempt may complete.
MaxTime == 2
\* Most pushes of a run that the lookup's tag collision makes find an equal
\* task.
MaxCollisions == 1
\* Values of the CLI's --end-round.
EndRoundSet == {2}

\* Node ids (0-based, as the indices of Vec<Node>).
NodeIds == {0, 1}
\* Values the truncated exponential sample of a mining time may take.
TauSet == {0, 1}
\* Values the block's random tie-breaker may take.
RandSet == {0, 1}
\* Values of the CLI's --delay.
DelaySet == {0, 1}
TieRules == {"Longest", "Random", "Time"}
StrategyKinds == {"Honest", "Selfish"}
\* The profiles of the runs: node 0 is honest, the others are of any kind.
Profiles == {kinds \in [NodeIds -> StrategyKinds] : kinds[0] = "Honest"}

(***************************************************************************)
(* Option<T>: None is the empty sequence, Some(x) the one-element one.     *)
(***************************************************************************)
None == <<>>
Some(x) == <<x>>
IsSome(o) == o # <<>>
Unwrap(o) == o[1]

Swap(seq, i, j) == [seq EXCEPT ![i] = seq[j], ![j] = seq[i]]

(***************************************************************************)
(* Blocks and the block pool.                                              *)
(***************************************************************************)
GENESIS_BLOCK_ID == 0
GenesisMinter == -1
BTC_DAA_EPOCH == 2016
BTC_TARGET_GENERATION_TIME == 600000
\* BitcoinProtocol::default_difficulty is 1.0; difficulties are kept in
\* units of 1/DifficultyUnit so that retargeting stays in the integers.
DifficultyUnit == 1000
BitcoinDefaultDifficulty == DifficultyUnit

Block(height, prev_block_id, minter, time, rand, id, difficulty, mining_time) ==
    [height |-> height, prev_block_id |-> prev_block_id, minter |-> minter,
     time |-> time, rand |-> rand, id |-> id, difficulty |-> difficulty,
     mining_time |-> mining_time]

Genesis ==
    Block(0, None, GenesisMinter, 0, 0, GENESIS_BLOCK_ID, BitcoinDefaultDifficulty, 0)

\* Blockchain::new: the pool holds genesis, the id counter starts at 1.
NewBlockchain == [blocks |-> <<Genesis>>, next_block_id |-> 1]

\* Blockchain::add_block: push; the block keeps the id it was built with.
add_block(blocks, block) == Append(blocks, block)

\* Blockchain::get_block: Vec::get(id), None when out of range.
get_block(blocks, id) ==
    IF id >= 0 /\ id < Len(blocks) THEN Some(blocks[id + 1]) ELSE None

\* get_block(id).unwrap() of the call sites.
BlockAt(blocks, id) == Unwrap(get_block(blocks, id))

\* An id counter that hands out its value and stays.
ReuseBlockId(counter) == [id |-> counter, counter |-> counter]

\* Blockchain::next_block_id: fetch_add(1) returns the old value.
Blockchain_next_block_id(counter) == [id |-> counter, counter |-> counter + 1]

RECURSIVE MaxHeightFrom(_, _, _)
MaxHeightFrom(blocks, i, acc) ==
    IF i > Len(blocks) THEN acc
    ELSE MaxHeightFrom(blocks, i + 1,
                       IF blocks[i].height > acc THEN blocks[i].height ELSE acc)

\* Blockchain::max_height: iter().map(height).max().unwrap_or(0).
max_height(blocks) ==
    IF Len(blocks) = 0 THEN 0 ELSE MaxHeightFrom(blocks, 2, blocks[1].height)

\* The first block of the pool (in iteration order) at the given height.
RECURSIVE FirstAtHeight(_, _, _)
FirstAtHeight(blocks, i, h) ==
    IF i > Len(blocks) THEN None
    ELSE IF blocks[i].height = h THEN Some(blocks[i].id)
    ELSE FirstAtHeight(blocks, i + 1, h)

\* The loop of get_main_chain: push current_id, stop on a missing block or
\* on a block without a parent, else go to the parent. The result is in
\* push order (tip first); fuel bounds the walk of a malformed pool.
RECURSIVE WalkToGenesis(_, _, _, _)
WalkToGenesis(blocks, current_id, chain, fuel) ==
    LET pushed == Append(chain, current_id)
        block  == get_block(blocks, current_id)
    IN  IF fuel = 0 \/ ~IsSome(block) THEN pushed
        ELSE IF IsSome(Unwrap(block).prev_block_id)
             THEN WalkToGenesis(blocks, Unwrap(Unwrap(block).prev_block_id),
                                pushed, fuel - 1)
             ELSE pushed

\* A chain left in push order.
KeepOrder(seq) == seq

\* `chain.reverse()`.
Reverse(seq) == [i \in 1..Len(seq) |-> seq[Len(seq) + 1 - i]]

\* Blockchain::get_main_chain: block ids, oldest to newest.
get_main_chain(blocks) ==
    LET mh  == max_height(blocks)
        tip == FirstAtHeight(blocks, 1, mh)
    IN  IF mh = 0 THEN <<GENESIS_BLOCK_ID>>
        ELSE IF ~IsSome(tip) THEN <<GENESIS_BLOCK_ID>>
        ELSE Reverse(WalkToGenesis(blocks, Unwrap(tip), <<>>, Len(blocks)))

(***************************************************************************)
(* Tasks and the task queue.                                               *)
(***************************************************************************)
BlockGeneration(minter) == [kind |-> "BlockGeneration", minter |-> minter]
Propagation(from, to, block_id) ==
    [kind |-> "Propagation", from |-> from, to |-> to, block_id |-> block_id]
Task(time, ty) == [time |-> time, ty |-> ty]

is_block_generation(task) == task.ty.kind = "BlockGeneration"
is_propagation(task) == task.ty.kind = "Propagation"

\* impl PartialEq for Task: two tasks are equal when their times are.
TaskEq(a, b) == a.time = b.time

\* #[derive(Hash)] for Task hashes the time and the type, so two tasks
\* have the same hash only when they are identical.
SameHash(a, b) == a = b

(***************************************************************************)
(* priority_queue::PriorityQueue<Task, i64>: an insertion-ordered map of   *)
(* (item, priority) and a binary max-heap of the map's indices.            *)
(***************************************************************************)
EmptyQueue == [map |-> <<>>, heap |-> <<>>]

PQLen(q) == Len(q.heap)
PQItems(q) == {q.map[i].item : i \in 1..Len(q.map)}

\* Move the entry at heap position pos up while its parent is smaller.
RECURSIVE BubbleUp(_, _, _)
BubbleUp(map, heap, pos) ==
    IF pos > 1 /\ map[heap[pos \div 2]].priority < map[heap[pos]].priority
    THEN BubbleUp(map, Swap(heap, pos, pos \div 2), pos \div 2)
    ELSE heap

\* Move the entry at heap position pos down while a child is larger.
RECURSIVE Heapify(_, _, _)
Heapify(map, heap, pos) ==
    LET n == Len(heap)
        l == 2 * pos
        r == 2 * pos + 1
        p(i) == map[heap[i]].priority
        big == IF l <= n /\ p(l) > p(pos) THEN l ELSE pos
        largest == IF l <= n /\ r <= n /\ p(r) > p(big) THEN r ELSE big
    IN  IF pos >= 1 /\ pos <= n /\ largest # pos
        THEN Heapify(map, Swap(heap, pos, largest), largest)
        ELSE heap

RECURSIVE HeapBuild(_, _, _)
HeapBuild(map, heap, pos) ==
    IF pos < 1 THEN heap ELSE HeapBuild(map, Heapify(map, heap, pos), pos - 1)

\* The map index of an entry the lookup of `item` finds, 0 when none. An
\* entry is found when it is equal (TaskEq) and its hash is met by the
\* probe: always when the hashes agree, and for an equal entry with another
\* hash when the table's tag bits collide (`collide`).
FoundIndex(q, item, collide) ==
    LET hits == {i \in 1..Len(q.map) :
                    /\ TaskEq(q.map[i].item, item)
                    /\ (SameHash(q.map[i].item, item) \/ collide)}
    IN  IF hits = {} THEN 0 ELSE CHOOSE i \in hits : \A j \in hits : i <= j

\* PriorityQueue::push: an equal item already present keeps its place and
\* only takes the new priority; otherwise the item is appended and bubbles up.
PQPush(q, item, priority, collide) ==
    LET at == FoundIndex(q, item, collide)
        n  == Len(q.map)
    IN  IF at # 0
        THEN LET map1 == [q.map EXCEPT ![at].priority = priority]
                 pos  == CHOOSE k \in 1..n : q.heap[k] = at
                 up   == BubbleUp(map1, q.heap, pos)
                 pos1 == CHOOSE k \in 1..n : up[k] = at
             IN  [map |-> map1, heap |-> Heapify(map1, up, pos1)]
        ELSE LET map1 == Append(q.map, [item |-> item, priority |-> priority])
             IN  [map |-> map1, heap |-> BubbleUp(map1, Append(q.heap, n + 1), n + 1)]

\* PriorityQueue::pop on a non-empty queue: swap_remove of the heap's root
\* (the last heap entry takes its place and sinks) and swap_remove of the
\* item from the map (the last map entry takes its index).
PQPop(q) ==
    LET n     == Len(q.heap)
        head  == q.heap[1]
        heap1 == [i \in 1..(n - 1) |-> IF i = 1 THEN q.heap[n] ELSE q.heap[i]]
        map1  == [i \in 1..(n - 1) |-> IF i = head THEN q.map[n] ELSE q.map[i]]
        heap2 == [i \in 1..(n - 1) |-> IF heap1[i] = n THEN head ELSE heap1[i]]
    IN  [item  |-> q.map[head].item,
         queue |-> [map |-> map1, heap |-> Heapify(map1, heap2, 1)]]

\* PriorityQueue::retain: the map keeps the items of the set keep, in order;
\* when something was removed the heap is rebuilt from the map.
PQRetain(q, keep) ==
    LET map1 == SelectSeq(q.map, LAMBDA e : e.item \in keep)
        n    == Len(map1)
    IN  IF n = Len(q.map) THEN q
        ELSE [map |-> map1,
              heap |-> HeapBuild(map1, [i \in 1..n |-> i], (n \div 2) + 1)]

(***************************************************************************)
(* Mining strategies (mining_strategy.rs). A callback returns the          *)
(* strategy's next state, its actions in order, and whether an unwrap()    *)
(* in it failed.                                                           *)
(***************************************************************************)
num_nodes == Cardinality(NodeIds)

Propagate(block_id, to) == [kind |-> "Propagate", block_id |-> block_id, to |-> to]
RestartMining(prev_block_id) ==
    [kind |-> "RestartMining", prev_block_id |-> prev_block_id]

Env(blocks) == [blocks |-> blocks, num_nodes |-> num_nodes]

\* A broadcast that names the id after the block's.
PropagateNextId(block_id, env) ==
    [i \in 1..env.num_nodes |-> Propagate(block_id + 1, i - 1)]

\* `for node in 0..env.num_nodes { actions.push(Propagate { block_id, to: node }) }`
PropagateToAll(block_id, env) ==
    [i \in 1..env.num_nodes |-> Propagate(block_id, i - 1)]

RECURSIVE PropagateEach(_, _, _)
PropagateEach(ids, i, env) ==
    IF i > Len(ids) THEN <<>>
    ELSE PropagateToAll(ids[i], env) \o PropagateEach(ids, i + 1, env)

\* A comparison that keeps the known block only when it is strictly higher.
PreferArrival(env, block1_id, block2_id) ==
    IF BlockAt(env.blocks, block1_id).height > BlockAt(env.blocks, block2_id).height
    THEN block1_id ELSE block2_id

longest_chain(env, block1_id, block2_id) ==
    LET block1 == BlockAt(env.blocks, block1_id)
        block2 == BlockAt(env.blocks, block2_id)
    IN  IF block1.height >= block2.height THEN block1_id
        ELSE IF block1.height < block2.height THEN block2_id
        ELSE IF block1.rand > block2.rand THEN block1_id ELSE block2_id

HonestDefault == [kind |-> "Honest", current_block_id |-> GENESIS_BLOCK_ID]

HonestOnMiningBlock(st, block_id, env) ==
    [strategy |-> st,
     actions  |-> Append(PropagateToAll(block_id, env), RestartMining(block_id)),
     panic    |-> FALSE]

HonestOnReceivingBlock(st, block_id, env) ==
    LET old_chain == st.current_block_id
        new_chain == longest_chain(env, st.current_block_id, block_id)
    IN  [strategy |-> [st EXCEPT !.current_block_id = new_chain],
         actions  |-> IF old_chain = new_chain THEN <<>>
                      ELSE <<RestartMining(new_chain)>>,
         panic    |-> FALSE]

SelfishDefault ==
    [kind |-> "Selfish", public_chain |-> GENESIS_BLOCK_ID,
     private_chain |-> GENESIS_BLOCK_ID, private_branch_len |-> 0]

\* SelfishMiningStrategy::get_private_branch: private_branch_len rounds from
\* private_chain; each round pushes current_id, steps to the parent and
\* pushes the id of the block it just left.
RECURSIVE PrivateBranchFrom(_, _, _, _)
PrivateBranchFrom(env, current_id, rounds, acc) ==
    IF rounds = 0 THEN [ids |-> acc, panic |-> FALSE]
    ELSE LET block == get_block(env.blocks, current_id)
         IN  IF ~IsSome(block) \/ ~IsSome(Unwrap(block).prev_block_id)
             THEN [ids |-> Append(acc, current_id), panic |-> TRUE]
             ELSE PrivateBranchFrom(env, Unwrap(Unwrap(block).prev_block_id),
                                    rounds - 1,
                                    acc \o <<current_id, Unwrap(block).id>>)

\* A walk that stops one block short of the branch's oldest block.
BranchButOldest(st, env) ==
    PrivateBranchFrom(env, st.private_chain,
                      IF st.private_branch_len > 0
                      THEN st.private_branch_len - 1 ELSE 0, <<>>)

get_private_branch(st, env) ==
    PrivateBranchFrom(env, st.private_chain, st.private_branch_len, <<>>)

\* A last private block read from the public chain.
PublicAsLast(st) == st.public_chain

get_last_private_block(st) == st.private_chain

\* SelfishMiningStrategy::get_first_unpublished_private_block: the block
\* private_branch_len parents above private_chain.
RECURSIVE AncestorFrom(_, _, _)
AncestorFrom(env, current_id, rounds) ==
    IF rounds = 0 THEN [id |-> current_id, panic |-> FALSE]
    ELSE LET block == get_block(env.blocks, current_id)
         IN  IF ~IsSome(block) \/ ~IsSome(Unwrap(block).prev_block_id)
             THEN [id |-> current_id, panic |-> TRUE]
             ELSE AncestorFrom(env, Unwrap(Unwrap(block).prev_block_id), rounds - 1)

get_first_unpublished_private_block(st, env) ==
    AncestorFrom(env, st.private_chain, st.private_branch_len)

SelfishOnMiningBlock(st, block_id, env) ==
    LET private_chain_height == BlockAt(env.blocks, st.private_chain).height
        public_chain_height  == BlockAt(env.blocks, st.public_chain).height
        delta_prev == private_chain_height - public_chain_height
        st1 == [st EXCEPT !.private_chain = block_id,
                          !.private_branch_len = st.private_branch_len + 1]
        publish == delta_prev = 0 /\ st1.private_branch_len = 2
        branch  == get_private_branch(st1, env)
        st2 == IF publish THEN [st1 EXCEPT !.private_branch_len = 0] ELSE st1
    IN  [strategy |-> st2,
         actions  |-> Append(IF publish THEN PropagateEach(branch.ids, 1, env)
                             ELSE <<>>,
                             RestartMining(st2.private_chain)),
         panic    |-> publish /\ branch.panic]

\* A receive that records the public chain and restarts mining on the old
\* one, whatever the lead.
ReceiveWithoutReset(st, block_id, env) ==
    [strategy |-> [st EXCEPT !.public_chain =
                                 longest_chain(env, st.public_chain, block_id)],
     actions  |-> <<RestartMining(st.public_chain)>>,
     panic    |-> FALSE]

SelfishOnReceivingBlock(st, block_id, env) ==
    LET private_chain_height == BlockAt(env.blocks, st.private_chain).height
        public_chain_height  == BlockAt(env.blocks, st.public_chain).height
        delta_prev == private_chain_height - public_chain_height
        st1 == [st EXCEPT !.public_chain = longest_chain(env, st.public_chain, block_id)]
        branch == get_private_branch(st1, env)
        first  == get_first_unpublished_private_block(st1, env)
    IN  IF delta_prev <= 0
        THEN [strategy |-> [st1 EXCEPT !.private_chain = st1.public_chain,
                                       !.private_branch_len = 0],
              actions  |-> <<RestartMining(st1.public_chain)>>,
              panic    |-> FALSE]
        ELSE IF delta_prev = 1
        THEN [strategy |-> st1,
              actions  |-> PropagateToAll(get_last_private_block(st1), env),
              panic    |-> FALSE]
        ELSE IF delta_prev = 2
        THEN [strategy |-> [st1 EXCEPT !.private_branch_len = 0],
              actions  |-> PropagateEach(branch.ids, 1, env),
              panic    |-> branch.panic]
        ELSE [strategy |-> st1,
              actions  |-> PropagateToAll(first.id, env),
              panic    |-> first.panic]

\* MiningStrategyEnum::to_strategy.
to_strategy(kind) == IF kind = "Honest" THEN HonestDefault ELSE SelfishDefault

\* Dynamic dispatch of MiningStrategy::on_mining_block / on_receiving_block.
on_mining_block(st, block_id, env) ==
    IF st.kind = "Honest" THEN HonestOnMiningBlock(st, block_id, env)
    ELSE SelfishOnMiningBlock(st, block_id, env)

on_receiving_block(st, block_id, env) ==
    IF st.kind = "Honest" THEN HonestOnReceivingBlock(st, block_id, env)
    ELSE SelfishOnReceivingBlock(st, block_id, env)

(***************************************************************************)
(* Difficulty (protocol.rs, BitcoinProtocol).                              *)
(***************************************************************************)
\* `for _ in 0..n { block = blocks[block.prev_block_id] }`: the n-th ancestor.
\* The walk is made in two halves, the first finished before the second
\* starts; a half never ends on the block it started from.
RECURSIVE NthAncestor(_, _, _)
NthAncestor(blocks, block_id, n) ==
    IF n = 0 THEN BlockAt(blocks, block_id)
    ELSE IF n = 1
    THEN BlockAt(blocks, Unwrap(BlockAt(blocks, block_id).prev_block_id))
    ELSE LET half == NthAncestor(blocks, block_id, n \div 2)
         IN  IF half.id = block_id THEN half
             ELSE NthAncestor(blocks, half.id, n - (n \div 2))

\* The grain of time: a time of the model counts ticks of MillisPerTick
\* milliseconds, so that an epoch of 2016 blocks fits the integers.
MillisPerTick == 1000

\* A retarget whose ratio is clamped to [1/8, 8].
RetargetClampedAtEight(blocks, parent_block, current_time) ==
    LET new_height == parent_block.height + 1
    IN  IF new_height % BTC_DAA_EPOCH = 0 /\ new_height >= BTC_DAA_EPOCH
        THEN LET first   == NthAncestor(blocks, parent_block.id, BTC_DAA_EPOCH - 1)
                 elapsed == current_time - first.time
                 span    == (BTC_DAA_EPOCH - 1)
                                * (BTC_TARGET_GENERATION_TIME \div MillisPerTick)
             IN  IF 8 * elapsed < span THEN parent_block.difficulty * 8
                 ELSE IF elapsed > 8 * span THEN parent_block.difficulty \div 8
                 ELSE (parent_block.difficulty * span) \div elapsed
        ELSE parent_block.difficulty

\* BitcoinProtocol::calculate_difficulty: the parent's difficulty, divided at
\* an epoch boundary by the ratio of the epoch's average block time to the
\* target, the ratio clamped to [1/4, 4].
calculate_new_difficulty(blocks, parent_block, current_time) ==
    LET new_height == parent_block.height + 1
    IN  IF new_height % BTC_DAA_EPOCH = 0 /\ new_height >= BTC_DAA_EPOCH
        THEN LET first   == NthAncestor(blocks, parent_block.id, BTC_DAA_EPOCH - 1)
                 elapsed == current_time - first.time
                 span    == (BTC_DAA_EPOCH - 1)
                                * (BTC_TARGET_GENERATION_TIME \div MillisPerTick)
             IN  IF 4 * elapsed < span THEN parent_block.difficulty * 4
                 ELSE IF elapsed > 4 * span THEN parent_block.difficulty \div 4
                 ELSE (parent_block.difficulty * span) \div elapsed
        ELSE parent_block.difficulty

(***************************************************************************)
(* Difficulty (protocol.rs, EthereumProtocol). An Ethereum difficulty is a *)
(* whole number beyond the integers of the model: it is kept as the pair   *)
(* of its quotient q and remainder r by 2048, standing for q * 2048 + r.   *)
(***************************************************************************)
\* The divisor of `parent_block.difficulty() / 2048.`.
Limb == 2048

Wide(q, r) == [q |-> q, r |-> r]

\* `(difficulty / 2048.) as i64`.
WideQuotient(d) == d.q

\* `difficulty as i64 + n`.
WideAdd(d, n) == Wide(d.q + ((d.r + n) \div Limb), (d.r + n) % Limb)

\* a - b, for two difficulties close enough that the difference is an
\* integer of the model.
WideMinus(a, b) == (a.q - b.q) * Limb + (a.r - b.r)

\* EthereumProtocol::default_difficulty: 2f64.powi(32), which is 2^21 * 2048.
EthereumDefaultDifficulty == Wide(2 ^ 21, 0)

\* Rust's `/` on i64: the quotient rounded towards zero.
TruncDiv(a, b) == IF a >= 0 THEN a \div b ELSE -((-a) \div b)

\* `.max(-99)`.
Max(a, b) == IF a >= b THEN a ELSE b

\* An adjustment factor without its lower bound.
UnboundedFactor(time_diff) == 1 - TruncDiv(time_diff, 10)

\* `(1 - (time_diff / 10)).max(-99)`.
adjustment_factor(time_diff) == Max(1 - TruncDiv(time_diff, 10), -99)

\* EthereumProtocol::calculate_difficulty.
EthereumCalculateDifficulty(blocks, parent_block, current_time) ==
    IF parent_block.height = 0 THEN EthereumDefaultDifficulty
    ELSE LET grand_parent_block ==
                 BlockAt(blocks, Unwrap(parent_block.prev_block_id))
             time_diff ==
                 TruncDiv((parent_block.time - grand_parent_block.time)
                              * MillisPerTick, 1000)
             difficulty_adjustment ==
                 WideQuotient(parent_block.difficulty) * adjustment_factor(time_diff)
             uncle_adjustment == 0
         IN  WideAdd(parent_block.difficulty,
                     difficulty_adjustment + uncle_adjustment)

\* ProtocolType::to_protocol and the dispatch of Protocol::calculate_difficulty
\* and Protocol::default_difficulty.
ProtocolTypes == {"Bitcoin", "Ethereum"}

default_difficulty(protocol) ==
    IF protocol = "Bitcoin" THEN BitcoinDefaultDifficulty
    ELSE EthereumDefaultDifficulty

calculate_difficulty(protocol, blocks, parent_block, current_time) ==
    IF protocol = "Bitcoin"
    THEN calculate_new_difficulty(blocks, parent_block, current_time)
    ELSE EthereumCalculateDifficulty(blocks, parent_block, current_time)

(***************************************************************************)
(* Profiles (profile.rs, types.rs). serde writes a NetworkProfile as the   *)
(* JSON object {"nodes": [...]}, a NodeProfile as {"hashrate", "strategy"} *)
(* and a MiningStrategyEnum as an object tagged by "type" with the name of *)
(* the variant in snake case, next to the fields of the variant. A JSON    *)
(* object is a function from its keys, a JSON array a sequence.            *)
(***************************************************************************)
\* The variants of the enum with the names of their fields.
VariantFields ==
    [Honest                   |-> {},
     PurePropagationDelay     |-> {"propagation_delay"},
     SimpleSubmissionPostpone |-> {"postpone_time"},
     KLeadSelfishMining       |-> {"k"}]

Variants == DOMAIN VariantFields

\* `rename_all = "snake_case"`.
snake_case(variant) ==
    CASE variant = "Honest"                   -> "honest"
      [] variant = "PurePropagationDelay"     -> "pure_propagation_delay"
      [] variant = "SimpleSubmissionPostpone" -> "simple_submission_postpone"
      [] variant = "KLeadSelfishMining"       -> "k_lead_selfish_mining"

\* A strategy written as its tag alone.
TagOnly(st) == [key \in {"type"} |-> snake_case(st.variant)]

\* Serialize for MiningStrategyEnum: the tag and the fields of the variant.
SerializeStrategy(st) ==
    [key \in {"type"} \cup VariantFields[st.variant] |->
        IF key = "type" THEN snake_case(st.variant) ELSE st[key]]

\* Deserialize for MiningStrategyEnum: the variant of the tag with its
\* fields, an error (None) for an unknown tag or a missing field.
DeserializeStrategy(json) ==
    LET known == {v \in Variants : snake_case(v) = json.type}
    IN  IF known = {} THEN None
        ELSE LET variant == CHOOSE v \in known : TRUE
             IN  IF ~(VariantFields[variant] \subseteq DOMAIN json) THEN None
                 ELSE Some([key \in {"variant"} \cup VariantFields[variant] |->
                              IF key = "variant" THEN variant ELSE json[key]])

\* Serialize for NodeProfile and NetworkProfile (serde_json::to_string_pretty).
SerializeNode(node) ==
    [hashrate |-> node.hashrate, strategy |-> SerializeStrategy(node.strategy)]

SerializeProfile(profile) ==
    [nodes |-> [i \in 1..Len(profile.nodes) |-> SerializeNode(profile.nodes[i])]]

\* Deserialize for NetworkProfile (serde_json::from_str): an error (None)
\* when the strategy of a node is one.
DeserializeProfile(json) ==
    LET strategies ==
            [i \in 1..Len(json.nodes) |-> DeserializeStrategy(json.nodes[i].strategy)]
    IN  IF \E i \in 1..Len(json.nodes) : ~IsSome(strategies[i]) THEN None
        ELSE Some([nodes |-> [i \in 1..Len(json.nodes) |->
                      [hashrate |-> json.nodes[i].hashrate,
                       strategy |-> Unwrap(strategies[i])]]])

(***************************************************************************)
(* The engine (simulator.rs). A state of the simulator is a record s; a    *)
(* configuration cfg holds the run's tie rule, delay and end_round, and    *)
(* the number of collisions the run may still meet.                        *)
(***************************************************************************)
\* BlockchainSimulator::new_with_profile for the given strategy kinds.
NewSimulator(kinds) ==
    [current_round     |-> 0,
     current_time      |-> 0,
     blocks            |-> NewBlockchain.blocks,
     next_block_id     |-> NewBlockchain.next_block_id,
     task_queue        |-> EmptyQueue,
     current_block_id  |-> [n \in NodeIds |-> GENESIS_BLOCK_ID],
     private_chain_tip |-> [n \in NodeIds |-> None],
     next_mining_time  |-> [n \in NodeIds |-> None],
     strategy          |-> [n \in NodeIds |-> to_strategy(kinds[n])],
     panicked          |-> FALSE]

\* A priority that is the time itself.
TaskPriorityByTime(task) == task.time

\* The priority enqueue_task gives a task: the queue is a max-queue, so the
\* time is negated.
TaskPriority(task) == 0 - task.time

\* BlockchainSimulator::enqueue_task.
enqueue_task(queue, task, collide) == PQPush(queue, task, TaskPriority(task), collide)

\* A propagation that arrives before it was sent.
ArrivesBeforeSent(from, to, delay) == IF from = to THEN 0 ELSE 0 - delay

\* BlockchainSimulator::propagation_time.
propagation_time(from, to, delay) == IF from = to THEN 0 ELSE delay

\* A fork choice that takes the arrival when it is at least as high.
AdoptOnTie(blocks, tie, block1_id, block2_id, to) ==
    IF BlockAt(blocks, block1_id).height >= BlockAt(blocks, block2_id).height
    THEN block1_id ELSE block2_id

\* A fork choice that always takes the arrival.
AdoptArrival(blocks, tie, block1_id, block2_id, to) == block1_id

\* BlockchainSimulator::choose_mainchain: the recipient's current block after
\* block1 (the arrival) met block2 (its current block).
choose_mainchain(blocks, tie, block1_id, block2_id, to) ==
    LET block1 == BlockAt(blocks, block1_id)
        block2 == BlockAt(blocks, block2_id)
    IN  IF block1.height > block2.height THEN block1_id
        ELSE IF block1.height = block2.height
        THEN IF \/ /\ tie = "Random"
                    /\ block2.minter # to
                    /\ block1.rand < block2.rand
                 \/ /\ tie = "Time"
                    /\ block2.minter # to
                    /\ block1.time > block2.time
             THEN block1_id ELSE block2_id
        ELSE block2_id

\* BlockchainSimulator::cancel_incoming_mining_task: the node's deadline is
\* cleared and every BlockGeneration task of the node leaves the queue.
\* A cancellation that takes nothing out of the queue.
CancelKeepsAll(task, node) == TRUE

CancelKeeps(task, node) == ~(task.ty = BlockGeneration(node))

cancel_incoming_mining_task(queue, node) ==
    [next_mining_time |-> None,
     task_queue       |-> PQRetain(queue, {task \in PQItems(queue) :
                                              CancelKeeps(task, node)})]

\* What the engine does with an action a callback returns: a Propagate
\* becomes a Propagation task at current_time + propagation_time, a
\* RestartMining a BlockGeneration task of the node at the sampled time.
ActionToTask(action, node, current_time, next_mining_time, delay) ==
    IF action.kind = "Propagate"
    THEN Task(current_time + propagation_time(node, action.to, delay),
              Propagation(node, action.to, action.block_id))
    ELSE Task(next_mining_time, BlockGeneration(node))

ActionsToTasks(actions, node, current_time, next_mining_time, delay) ==
    [i \in 1..Len(actions) |->
        ActionToTask(actions[i], node, current_time, next_mining_time, delay)]

\* `for task in tasks { ... self.enqueue_task(task) }` from position i on:
\* a BlockGeneration task sets the node's deadline, a Propagation task is
\* noted, every task is enqueued. The result is the set of outcomes, one for
\* each way the lookups of the pushes can collide (budget bounds the number
\* of collisions); inserted lists the tasks the queue took in, in order.
\* Whether a push of task can collide: the queue holds an equal task with
\* another hash and none with the same hash.
CanCollide(queue, task) ==
    FoundIndex(queue, task, FALSE) = 0 /\ FoundIndex(queue, task, TRUE) # 0

CollideChoices(queue, task, budget) ==
    IF budget > 0 /\ CanCollide(queue, task) THEN BOOLEAN ELSE {FALSE}

RECURSIVE ScheduleFrom(_, _, _)
ScheduleFrom(acc, tasks, i) ==
    IF i > Len(tasks) THEN {acc}
    ELSE LET task == tasks[i]
             after(collide) ==
                 LET q1 == enqueue_task(acc.queue, task, collide)
                 IN  [queue    |-> q1,
                      budget   |-> IF collide THEN acc.budget - 1 ELSE acc.budget,
                      deadline |-> IF is_block_generation(task)
                                   THEN Some(task.time) ELSE acc.deadline,
                      has_propagation_task |->
                          acc.has_propagation_task \/ is_propagation(task),
                      inserted |-> IF PQLen(q1) > PQLen(acc.queue)
                                   THEN Append(acc.inserted, task)
                                   ELSE acc.inserted]
         IN  UNION {ScheduleFrom(after(collide), tasks, i + 1) :
                        collide \in CollideChoices(acc.queue, task, acc.budget)}

ScheduleTasks(queue, deadline, tasks, budget) ==
    ScheduleFrom([queue |-> queue, deadline |-> deadline, budget |-> budget,
                  has_propagation_task |-> FALSE, inserted |-> <<>>],
                 tasks, 1)

\* The first loop of simulation(): one BlockGeneration task per node, at a
\* sampled time, which is also the node's deadline.
Bootstrap(s, cfg, times) ==
    LET tasks == [i \in 1..num_nodes |-> Task(times[i - 1], BlockGeneration(i - 1))]
    IN  {[state    |-> [s EXCEPT !.task_queue = sched.queue,
                                 !.next_mining_time =
                                     [n \in NodeIds |-> Some(times[n])]],
          inserted |-> sched.inserted, removed |-> {},
          budget   |-> sched.budget] :
            sched \in ScheduleTasks(s.task_queue, None, tasks, cfg.budget)}

\* A loop that still runs in the round end_round.
LoopUntilPast(s, cfg) ==
    PQLen(s.task_queue) > 0 /\ s.current_round <= cfg.end_round

\* The loop's condition.
LoopCondition(s, cfg) ==
    PQLen(s.task_queue) > 0 /\ s.current_round < cfg.end_round

\* The task the next iteration pops.
NextTask(s) == PQPop(s.task_queue).item

\* A test of the deadline that only asks whether one is set.
HasDeadline(next_mining_time, task) == IsSome(next_mining_time)

\* `if let Some(task_time) = next_mining_time() { if task_time != time { continue } } else { continue }`
IsCurrentMiningTask(next_mining_time, task) ==
    IsSome(next_mining_time) /\ Unwrap(next_mining_time) = task.time

\* A child at its parent's height.
ParentHeight(mining_base_block) == mining_base_block.height

\* The height of the block a BlockGeneration task creates.
NewBlockHeight(mining_base_block) == mining_base_block.height + 1

\* A mining time measured from the start of the run.
TimeSinceStart(current_time, mining_base_block) == current_time

\* `self.current_time - mining_base_block.time()`, the last argument of
\* Block::new.
MiningTime(current_time, mining_base_block) ==
    current_time - mining_base_block.time

\* A round that counts the blocks mined.
RoundCountsBlocks(current_round, height) == current_round + 1

\* `if self.current_round < new_block.height() { self.current_round = new_block.height() }`
RoundAfter(current_round, height) ==
    IF current_round < height THEN height ELSE current_round

\* The BlockGeneration arm, s being the state after the pop.
OnBlockGeneration(s, cfg, task, tau, rnd) ==
    LET minter == task.ty.minter
        mining_base_block_id ==
            IF IsSome(s.private_chain_tip[minter])
            THEN Unwrap(s.private_chain_tip[minter])
            ELSE s.current_block_id[minter]
        mining_base_block == BlockAt(s.blocks, mining_base_block_id)
        new_difficulty ==
            calculate_new_difficulty(s.blocks, mining_base_block, s.current_time)
        next_mining_time == Unwrap(s.next_mining_time[minter]) + tau
        alloc == Blockchain_next_block_id(s.next_block_id)
        new_block == Block(NewBlockHeight(mining_base_block),
                           Some(mining_base_block_id), minter, s.current_time,
                           rnd, alloc.id, new_difficulty,
                           MiningTime(s.current_time, mining_base_block))
        blocks1 == add_block(s.blocks, new_block)
        cb    == on_mining_block(s.strategy[minter], new_block.id, Env(blocks1))
        tasks == ActionsToTasks(cb.actions, minter, s.current_time,
                                next_mining_time, cfg.delay)
    IN  IF ~IsCurrentMiningTask(s.next_mining_time[minter], task)
        THEN {[state |-> s, inserted |-> <<>>, removed |-> {},
               budget |-> cfg.budget]}
        ELSE IF cb.panic
        THEN {[state |-> [s EXCEPT !.blocks = blocks1,
                                   !.next_block_id = alloc.counter,
                                   !.private_chain_tip[minter] = Some(new_block.id),
                                   !.panicked = TRUE],
               inserted |-> <<>>, removed |-> {}, budget |-> cfg.budget]}
        ELSE {[state |-> [s EXCEPT !.blocks = blocks1,
                                   !.next_block_id = alloc.counter,
                                   !.private_chain_tip[minter] = Some(new_block.id),
                                   !.strategy[minter] = cb.strategy,
                                   !.task_queue = sched.queue,
                                   !.next_mining_time[minter] = sched.deadline,
                                   !.current_round =
                                       RoundAfter(s.current_round, new_block.height)],
               inserted |-> sched.inserted, removed |-> {},
               budget   |-> sched.budget] :
                 sched \in ScheduleTasks(s.task_queue, s.next_mining_time[minter],
                                         tasks, cfg.budget)}

\* The Propagation arm, s being the state after the pop.
OnPropagation(s, cfg, task, tau) ==
    LET from == task.ty.from
        to   == task.ty.to
        block_id == task.ty.block_id
        current_block_id == s.current_block_id[to]
        new_block_id ==
            choose_mainchain(s.blocks, cfg.tie, block_id, current_block_id, to)
        new_height == BlockAt(s.blocks, new_block_id).height
        tip0 == s.private_chain_tip[to]
        overtaken == IsSome(tip0)
                     /\ new_height > BlockAt(s.blocks, Unwrap(tip0)).height
        private_tip_id == IF overtaken THEN None ELSE tip0
        cancelled == cancel_incoming_mining_task(s.task_queue, to)
        next_mining_time == s.current_time + tau
        cb    == on_receiving_block(s.strategy[to], block_id, Env(s.blocks))
        tasks == ActionsToTasks(cb.actions, to, s.current_time,
                                next_mining_time, cfg.delay)
        removed == PQItems(s.task_queue) \ PQItems(cancelled.task_queue)
    IN  IF cb.panic
        THEN {[state |-> [s EXCEPT !.current_block_id[to] = new_block_id,
                                   !.private_chain_tip[to] = private_tip_id,
                                   !.task_queue = cancelled.task_queue,
                                   !.next_mining_time[to] = cancelled.next_mining_time,
                                   !.panicked = TRUE],
               inserted |-> <<>>, removed |-> removed, budget |-> cfg.budget]}
        ELSE {LET published == sched.has_propagation_task /\ IsSome(private_tip_id)
              IN  [state |-> [s EXCEPT !.current_block_id[to] =
                                           IF published THEN Unwrap(private_tip_id)
                                           ELSE new_block_id,
                                       !.private_chain_tip[to] =
                                           IF published THEN None ELSE private_tip_id,
                                       !.strategy[to] = cb.strategy,
                                       !.task_queue = sched.queue,
                                       !.next_mining_time[to] = sched.deadline],
                   inserted |-> sched.inserted, removed |-> removed,
                   budget   |-> sched.budget] :
                 sched \in ScheduleTasks(cancelled.task_queue,
                                         cancelled.next_mining_time, tasks,
                                         cfg.budget)}

\* One iteration of the loop: pop, set the time, dispatch on the task type.
Iteration(s, cfg, tau, rnd) ==
    LET popped == PQPop(s.task_queue)
        s1 == [s EXCEPT !.task_queue = popped.queue,
                        !.current_time = popped.item.time]
    IN  IF is_block_generation(popped.item)
        THEN OnBlockGeneration(s1, cfg, popped.item, tau, rnd)
        ELSE OnPropagation(s1, cfg, popped.item, tau)

(***************************************************************************)
(* The fairness report (print_mining_fairness).                            *)
(***************************************************************************)
\* A test of the minter that leaves the last node out.
RewardedButLast(minter) == minter >= 0 /\ minter < num_nodes - 1

\* `if minter >= 0 { let node_id = minter as usize; if node_id < rewards.len()`
Rewarded(minter) == minter >= 0 /\ minter < num_nodes

\* rewards[node_id] after the loop over the main chain: one for every entry
\* of the main chain whose block is in the pool and was minted by the node.
rewards(pool, node_id) ==
    LET main_chain == get_main_chain(pool)
    IN  Cardinality({k \in 1..Len(main_chain) :
                        /\ IsSome(get_block(pool, main_chain[k]))
                        /\ Rewarded(BlockAt(pool, main_chain[k]).minter)
                        /\ BlockAt(pool, main_chain[k]).minter = node_id})

\* `rewards.iter().sum()`, over the nodes 0 .. n - 1.
RECURSIVE SumRewards(_, _)
SumRewards(pool, n) ==
    IF n = 0 THEN 0 ELSE rewards(pool, n - 1) + SumRewards(pool, n - 1)

total_reward(pool) == SumRewards(pool, num_nodes)

\* reward_share as the fraction num / den; 0 / 1 when total_reward is 0.
reward_share(pool, node_id) ==
    LET total == total_reward(pool)
    IN  IF total > 0 THEN [num |-> rewards(pool, node_id), den |-> total]
        ELSE [num |-> 0, den |-> 1]

(***************************************************************************)
(* The state machine.                                                      *)
(***************************************************************************)
VARIABLES
    current_round, current_time, blocks, next_block_id, task_queue,
    current_block_id, private_chain_tip, next_mining_time, strategy, panicked,
    tie,        \* the run's tie rule
    protocol,   \* the run's protocol, "Bitcoin" or "Ethereum"
    codec,      \* a profile on its way through JSON, None in a run of the engine
    delay,      \* the run's propagation delay
    end_round,  \* the run's end_round
    phase,      \* "new", "loop", "done" or "aborted"
    tick,       \* flips at every popped task
    fifo,       \* the pending tasks in the order the queue took them in
    injected,   \* whether a stale BlockGeneration task was injected
    last,       \* the task the last iteration popped and the acting node as it
                \* was before, None before the first iteration
    skipped,    \* whether the last iteration popped a BlockGeneration task
                \* and left all but the time and the queue's head as it was
    budget,     \* the number of collisions the run may still meet
    twin        \* a second run with the same inputs: its state and budget

simvars == <<current_round, current_time, blocks, next_block_id, task_queue,
             current_block_id, private_chain_tip, next_mining_time, strategy,
             panicked>>
vars == <<simvars, tie, protocol, codec, delay, end_round, phase, tick, fifo, injected, last, skipped,
          budget, twin>>

Sim ==
    [current_round     |-> current_round,
     current_time      |-> current_time,
     blocks            |-> blocks,
     next_block_id     |-> next_block_id,
     task_queue        |-> task_queue,
     current_block_id  |-> current_block_id,
     private_chain_tip |-> private_chain_tip,
     next_mining_time  |-> next_mining_time,
     strategy          |-> strategy,
     panicked          |-> panicked]

Install(s) ==
    /\ current_round' = s.current_round
    /\ current_time' = s.current_time
    /\ blocks' = s.blocks
    /\ next_block_id' = s.next_block_id
    /\ task_queue' = s.task_queue
    /\ current_block_id' = s.current_block_id
    /\ private_chain_tip' = s.private_chain_tip
    /\ next_mining_time' = s.next_mining_time
    /\ strategy' = s.strategy
    /\ panicked' = s.panicked

Holds(s) ==
    /\ current_round = s.current_round
    /\ current_time = s.current_time
    /\ blocks = s.blocks
    /\ next_block_id = s.next_block_id
    /\ task_queue = s.task_queue
    /\ current_block_id = s.current_block_id
    /\ private_chain_tip = s.private_chain_tip
    /\ next_mining_time = s.next_mining_time
    /\ strategy = s.strategy
    /\ panicked = s.panicked

Cfg == [tie |-> tie, delay |-> delay, end_round |-> end_round,
        budget |-> budget]

\* The states after construction, for the given values of end_round and the
\* given number of collisions the run may meet.
InitWith(end_rounds, collisions) ==
    /\ tie \in TieRules
    /\ protocol = "Bitcoin"
    /\ codec = None
    /\ delay \in DelaySet
    /\ end_round \in end_rounds
    /\ \E kinds \in Profiles :
          /\ Holds(NewSimulator(kinds))
          /\ twin = [state |-> NewSimulator(kinds), budget |-> MaxCollisions]
    /\ phase = "new"
    /\ tick = 0
    /\ fifo = <<>>
    /\ injected = FALSE
    /\ skipped = FALSE
    /\ last = None
    /\ budget = collisions

Init == InitWith(EndRoundSet, MaxCollisions)

\* fifo after a step that popped the tasks in `popped` and had outcome out.
FifoAfter(popped, out) ==
    SelectSeq(fifo, LAMBDA t : t \notin popped /\ t \notin out.removed)
        \o out.inserted

\* simulation() up to its main loop, for the sampled times.
Boot(times) ==
    /\ phase = "new"
    /\ \E out \in Bootstrap(Sim, Cfg, times) :
          /\ Install(out.state)
          /\ budget' = out.budget
          /\ fifo' = FifoAfter({}, out)
    /\ phase' = "loop"
    /\ UNCHANGED <<tie, protocol, codec, delay, end_round, tick, injected, last, skipped>>

Start ==
    /\ \E times \in [NodeIds -> TauSet] : Boot(times)
    /\ UNCHANGED twin

\* The loop goes on and the popped task is within the model's horizon.
CanIterate ==
    /\ phase = "loop"
    /\ LoopCondition(Sim, Cfg)
    /\ NextTask(Sim).time <= MaxTime

\* The node a task acts on: the minter of a BlockGeneration task, the
\* recipient of a Propagation task.
ActingNode(task) ==
    IF is_block_generation(task) THEN task.ty.minter ELSE task.ty.to

\* The fields of node n in state s.
NodeOf(s, n) ==
    [current_block_id  |-> s.current_block_id[n],
     private_chain_tip |-> s.private_chain_tip[n],
     next_mining_time  |-> s.next_mining_time[n],
     strategy          |-> s.strategy[n]]

\* One iteration of the loop with the samples tau and rnd.
Iterate(tau, rnd) ==
    \E out \in Iteration(Sim, Cfg, tau, rnd) :
        /\ Install(out.state)
        /\ fifo' = FifoAfter({NextTask(Sim)}, out)
        /\ tick' = 1 - tick
        /\ budget' = out.budget
        /\ phase' = IF out.state.panicked THEN "aborted" ELSE "loop"
        /\ last' = Some([task |-> NextTask(Sim),
                         node |-> NodeOf(Sim, ActingNode(NextTask(Sim)))])
        /\ skipped' = /\ is_block_generation(NextTask(Sim))
                       /\ out.state =
                              [Sim EXCEPT !.task_queue = PQPop(task_queue).queue,
                                          !.current_time = NextTask(Sim).time]
        /\ UNCHANGED <<tie, protocol, codec, delay, end_round, injected>>

\* The values a block's rand is drawn from: a block's rand is read under the
\* Random tie rule alone, so the other runs draw a single value.
RandChoices == IF tie = "Random" THEN RandSet ELSE {0}

\* An iteration that pops a BlockGeneration task.
ProcessBlockGeneration ==
    /\ CanIterate
    /\ is_block_generation(NextTask(Sim))
    /\ \E tau \in TauSet, rnd \in RandChoices : Iterate(tau, rnd)
    /\ UNCHANGED twin

\* An iteration that pops a Propagation task.
ProcessPropagation ==
    /\ CanIterate
    /\ is_propagation(NextTask(Sim))
    /\ \E tau \in TauSet : Iterate(tau, 0)
    /\ UNCHANGED twin

\* The loop's condition fails: simulation() returns.
Return ==
    /\ phase = "loop"
    /\ ~LoopCondition(Sim, Cfg)
    /\ phase' = "done"
    /\ UNCHANGED <<simvars, tie, protocol, codec, delay, end_round, tick, fifo, injected, last, skipped,
                   budget>>

Exit == Return /\ UNCHANGED twin

Next == Start \/ ProcessBlockGeneration \/ ProcessPropagation \/ Exit

Spec == Init /\ [][Next]_vars

(***************************************************************************)
(* The engine with one BlockGeneration task put into the queue from        *)
(* outside, at a time that is not its node's deadline.                     *)
(***************************************************************************)
InjectStale ==
    /\ phase = "loop"
    /\ ~injected
    /\ LoopCondition(Sim, Cfg)
    /\ \E n \in NodeIds, t \in current_time..MaxTime :
          LET task == Task(t, BlockGeneration(n))
          IN  /\ next_mining_time[n] # Some(t)
              /\ \E collide \in CollideChoices(task_queue, task, budget) :
                    /\ task_queue' = enqueue_task(task_queue, task, collide)
                    /\ budget' = IF collide THEN budget - 1 ELSE budget
                    /\ fifo' = IF PQLen(task_queue') > PQLen(task_queue)
                               THEN Append(fifo, task) ELSE fifo
    /\ injected' = TRUE
    /\ UNCHANGED <<current_round, current_time, blocks, next_block_id,
                   current_block_id, private_chain_tip, next_mining_time,
                   strategy, panicked, tie, protocol, codec, delay, end_round, phase, tick,
                   last, skipped, twin>>

NextInject == Next \/ InjectStale

\* The test of the deadline reads no tie rule: the runs are the Longest ones.
InitInject == Init /\ tie = "Longest"

SpecInject == InitInject /\ [][NextInject]_vars

(***************************************************************************)
(* Longer runs, to end_round 3, in which no lookup of a push collides.     *)
(***************************************************************************)
DeepEndRoundSet == {3}

InitDeep == InitWith(DeepEndRoundSet, 0)

SpecDeep == InitDeep /\ [][Next]_vars

\* Runs that include the shortest: end_round 0 or 2.
ShortEndRoundSet == {0, 2}

InitShort == InitWith(ShortEndRoundSet, MaxCollisions)

SpecShort == InitShort /\ [][Next]_vars

(***************************************************************************)
(* The selfish strategy on its own: its two callbacks applied directly, as *)
(* the miner extends its private chain and as blocks of the other nodes    *)
(* reach it.  The pool grows up to MaxBlocks blocks.                       *)
(***************************************************************************)
MaxBlocks == 6

InitSelfish ==
    /\ InitWith(EndRoundSet, 0)
    /\ tie = "Longest"
    /\ delay = 0
    /\ \E n \in NodeIds : strategy[n].kind = "Selfish"

\* A block mined on base by minter, appended to the pool.
Child(base, minter) ==
    Block(BlockAt(blocks, base).height + 1, Some(base), minter, current_time, 0,
          Blockchain_next_block_id(next_block_id).id,
          BlockAt(blocks, base).difficulty, 0)

\* Selfish node n mines on its private chain: on_mining_block.
StrategyMines(n) ==
    LET new_block == Child(strategy[n].private_chain, n)
        cb == on_mining_block(strategy[n], new_block.id,
                              Env(add_block(blocks, new_block)))
    IN  /\ phase = "new"
        /\ strategy[n].kind = "Selfish"
        /\ Len(blocks) < MaxBlocks
        /\ blocks' = add_block(blocks, new_block)
        /\ next_block_id' = Blockchain_next_block_id(next_block_id).counter
        /\ strategy' = [strategy EXCEPT ![n] = cb.strategy]
        /\ panicked' = cb.panic
        /\ phase' = IF cb.panic THEN "aborted" ELSE "new"
        /\ last' = Some([task |-> Task(current_time, BlockGeneration(n)),
                         node |-> NodeOf(Sim, n)])
        /\ UNCHANGED <<current_round, current_time, task_queue, current_block_id,
                       private_chain_tip, next_mining_time, tie, protocol, codec, delay,
                       end_round, tick, fifo, injected, skipped, budget, twin>>

\* Another node mines on a block that is not one of n's own, or on n's
\* public chain, and selfish node n receives the block: on_receiving_block.
StrategyReceives(n, other, parent) ==
    LET new_block == Child(parent, other)
        cb == on_receiving_block(strategy[n], new_block.id,
                                 Env(add_block(blocks, new_block)))
    IN  /\ phase = "new"
        /\ strategy[n].kind = "Selfish"
        /\ Len(blocks) < MaxBlocks
        /\ \/ BlockAt(blocks, parent).minter # n
           \/ parent = strategy[n].public_chain
        /\ blocks' = add_block(blocks, new_block)
        /\ next_block_id' = Blockchain_next_block_id(next_block_id).counter
        /\ strategy' = [strategy EXCEPT ![n] = cb.strategy]
        /\ panicked' = cb.panic
        /\ phase' = IF cb.panic THEN "aborted" ELSE "new"
        /\ last' = Some([task |-> Task(current_time,
                                       Propagation(other, n, new_block.id)),
                         node |-> NodeOf(Sim, n)])
        /\ UNCHANGED <<current_round, current_time, task_queue, current_block_id,
                       private_chain_tip, next_mining_time, tie, protocol, codec, delay,
                       end_round, tick, fifo, injected, skipped, budget, twin>>

NextSelfish ==
    \/ \E n \in NodeIds : StrategyMines(n)
    \/ \E n \in NodeIds : \E other \in NodeIds \ {n} :
          \E parent \in 0..(Len(blocks) - 1) : StrategyReceives(n, other, parent)

SpecSelfish == InitSelfish /\ [][NextSelfish]_vars

(***************************************************************************)
(* Retargeting. One miner extends one chain, each block found some gap     *)
(* after its parent; the block is built as the BlockGeneration arm builds  *)
(* it, with the difficulty of the run's protocol. A Bitcoin chain keeps    *)
(* the pace of its first block up to the end of the epoch, where the gap   *)
(* is free again; an Ethereum chain chooses every gap.                     *)
(***************************************************************************)
MaxBitcoinHeight == 2017
MaxEthereumHeight == 4
BitcoinGaps == {0, 100, 600, 1200, 3000}
EthereumGaps == {0, 9, 10, 25, 1000, 1200}

\* Block::genesis(protocol): the genesis block of the run's protocol.
GenesisOf(p) == [Genesis EXCEPT !.difficulty = default_difficulty(p)]

\* BlockchainSimulator::new_with_profile under either protocol.
NewSimulatorOf(p, kinds) ==
    [NewSimulator(kinds) EXCEPT !.blocks = <<GenesisOf(p)>>]

InitRetarget ==
    /\ tie = "Longest"
    /\ protocol \in ProtocolTypes
    /\ codec = None
    /\ delay = 0
    /\ end_round \in EndRoundSet
    /\ Holds(NewSimulatorOf(protocol, [n \in NodeIds |-> "Honest"]))
    /\ twin = [state  |-> NewSimulatorOf(protocol, [n \in NodeIds |-> "Honest"]),
               budget |-> 0]
    /\ phase = "new"
    /\ tick = 0
    /\ fifo = <<>>
    /\ injected = FALSE
    /\ skipped = FALSE
    /\ last = None
    /\ budget = 0

Tip == blocks[Len(blocks)]

Gaps ==
    IF protocol = "Ethereum" THEN EthereumGaps
    ELSE IF Tip.height >= 1 /\ Tip.height + 1 < BTC_DAA_EPOCH
    THEN {blocks[2].time - blocks[1].time}
    ELSE BitcoinGaps

MaxHeight ==
    IF protocol = "Ethereum" THEN MaxEthereumHeight ELSE MaxBitcoinHeight

\* Node 0 finds a block on the tip, gap after the tip.
MineNext(gap) ==
    LET mining_base_block == Tip
        time  == current_time + gap
        alloc == Blockchain_next_block_id(next_block_id)
        new_difficulty ==
            calculate_difficulty(protocol, blocks, mining_base_block, time)
        new_block == Block(NewBlockHeight(mining_base_block),
                           Some(mining_base_block.id), 0, time, 0, alloc.id,
                           new_difficulty, MiningTime(time, mining_base_block))
    IN  /\ phase = "new"
        /\ mining_base_block.height < MaxHeight
        /\ current_time' = time
        /\ blocks' = add_block(blocks, new_block)
        /\ next_block_id' = alloc.counter
        /\ current_round' = RoundAfter(current_round, new_block.height)
        /\ UNCHANGED <<task_queue, current_block_id, private_chain_tip,
                       next_mining_time, strategy, panicked, tie, protocol, codec, delay,
                       end_round, phase, tick, fifo, injected, last, skipped,
                       budget, twin>>

NextRetarget == \E gap \in Gaps : MineNext(gap)

SpecRetarget == InitRetarget /\ [][NextRetarget]_vars

(***************************************************************************)
(* A profile written to JSON and read back, as to_file and from_file (and  *)
(* the test of profile.rs) do.                                             *)
(***************************************************************************)
MaxNodes == 2
HashrateSet == {1000, 2000}
ParamSet == {0, 2}

StrategyValues ==
    {[variant |-> "Honest"]}
    \cup {[variant |-> "PurePropagationDelay", propagation_delay |-> x] : x \in ParamSet}
    \cup {[variant |-> "SimpleSubmissionPostpone", postpone_time |-> x] : x \in ParamSet}
    \cup {[variant |-> "KLeadSelfishMining", k |-> x] : x \in ParamSet}

NodeProfiles == {[hashrate |-> h, strategy |-> st] : h \in HashrateSet, st \in StrategyValues}

NetworkProfiles ==
    {[nodes |-> nodes] : nodes \in UNION {[1..n -> NodeProfiles] : n \in 0..MaxNodes}}

InitProfile ==
    /\ tie = "Longest"
    /\ protocol = "Bitcoin"
    /\ \E profile \in NetworkProfiles :
          codec = Some([stage |-> "built", profile |-> profile,
                        json |-> None, loaded |-> None])
    /\ delay = 0
    /\ end_round \in EndRoundSet
    /\ Holds(NewSimulator([n \in NodeIds |-> "Honest"]))
    /\ twin = [state  |-> NewSimulator([n \in NodeIds |-> "Honest"]),
               budget |-> 0]
    /\ phase = "new"
    /\ tick = 0
    /\ fifo = <<>>
    /\ injected = FALSE
    /\ skipped = FALSE
    /\ last = None
    /\ budget = 0

engine == <<current_round, current_time, blocks, next_block_id, task_queue,
            current_block_id, private_chain_tip, next_mining_time, strategy,
            panicked, tie, protocol, delay, end_round, phase, tick, fifo,
            injected, last, skipped, budget, twin>>

\* serde_json::to_string_pretty(&profile).
Serialize ==
    /\ IsSome(codec)
    /\ Unwrap(codec).stage = "built"
    /\ codec' = Some([Unwrap(codec) EXCEPT
                         !.stage = "written",
                         !.json  = Some(SerializeProfile(Unwrap(codec).profile))])
    /\ UNCHANGED engine

\* serde_json::from_str(&json).
Deserialize ==
    /\ IsSome(codec)
    /\ Unwrap(codec).stage = "written"
    /\ codec' = Some([Unwrap(codec) EXCEPT
                         !.stage  = "read",
                         !.loaded = DeserializeProfile(Unwrap(Unwrap(codec).json))])
    /\ UNCHANGED engine

NextProfile == Serialize \/ Deserialize

SpecProfile == InitProfile /\ [][NextProfile]_vars

(***************************************************************************)
(* Two runs side by side: the same profile, tie rule, delay and end_round, *)
(* the same samples at every step. The runs go on while they pop the same  *)
(* task; which lookups collide is each run's own.                          *)
(***************************************************************************)
TwinCfg == [Cfg EXCEPT !.budget = twin.budget]

TwinStart ==
    \E times \in [NodeIds -> TauSet] :
        /\ Boot(times)
        /\ \E out \in Bootstrap(twin.state, TwinCfg, times) :
              twin' = [state |-> out.state, budget |-> out.budget]

\* Both runs are about to pop the same task.
TwinCanIterate ==
    /\ CanIterate
    /\ LoopCondition(twin.state, TwinCfg)
    /\ NextTask(twin.state) = NextTask(Sim)

TwinIterate(tau, rnd) ==
    /\ Iterate(tau, rnd)
    /\ \E out \in Iteration(twin.state, TwinCfg, tau, rnd) :
          twin' = [state |-> out.state, budget |-> out.budget]

TwinProcessBlockGeneration ==
    /\ TwinCanIterate
    /\ is_block_generation(NextTask(Sim))
    /\ \E tau \in TauSet, rnd \in RandChoices : TwinIterate(tau, rnd)

TwinProcessPropagation ==
    /\ TwinCanIterate
    /\ is_propagation(NextTask(Sim))
    /\ \E tau \in TauSet : TwinIterate(tau, 0)

TwinExit ==
    /\ Return
    /\ ~LoopCondition(twin.state, TwinCfg)
    /\ UNCHANGED twin

NextTwin ==
    TwinStart \/ TwinProcessBlockGeneration \/ TwinProcessPropagation \/ TwinExit

SpecTwin == Init /\ [][NextTwin]_vars

(***************************************************************************)
(* Properties of the task queue.                                           *)
(***************************************************************************)
\* The map indices of the pending BlockGeneration tasks of node n.
PendingBlockGenerations(q, n) ==
    {i \in 1..Len(q.map) : q.map[i].item.ty = BlockGeneration(n)}

\* C1: after bootstrap and after every processed event the task queue holds
\* at most one BlockGeneration task per node.
C1_AtMostOneBlockGenerationPerNode ==
    \A n \in NodeIds :
        Cardinality(PendingBlockGenerations(task_queue, n)) <= 1

\* A block was received and every node has its one BlockGeneration task.
C1_Witness ==
    /\ phase = "loop"
    /\ Len(blocks) >= 3
    /\ \E n \in NodeIds : current_block_id[n] # GENESIS_BLOCK_ID
    /\ \A n \in NodeIds :
          Cardinality(PendingBlockGenerations(task_queue, n)) = 1

\* C2: after every processed event, a node whose deadline is set has exactly
\* one pending BlockGeneration task, and that task's time is the deadline.
C2_DeadlineHasItsBlockGeneration ==
    (phase = "loop" /\ Len(blocks) >= 2) =>
        \A n \in NodeIds :
            IsSome(next_mining_time[n]) =>
                /\ Cardinality(PendingBlockGenerations(task_queue, n)) = 1
                /\ \A i \in PendingBlockGenerations(task_queue, n) :
                      task_queue.map[i].item.time = Unwrap(next_mining_time[n])

\* The pending BlockGeneration tasks of node n.
PendingMiningTasks(q, n) ==
    {q.map[i].item : i \in PendingBlockGenerations(q, n)}

\* C3: a popped BlockGeneration task whose time is not its node's deadline,
\* or whose node has no deadline, is dropped: the pool, the strategies, the
\* nodes and the rest of the queue stay as they are.
C3_StaleBlockGenerationIsDropped ==
    [][(/\ tick' # tick
        /\ is_block_generation(NextTask(Sim))
        /\ next_mining_time[NextTask(Sim).ty.minter] # Some(NextTask(Sim).time))
       => /\ blocks' = blocks
          /\ next_block_id' = next_block_id
          /\ strategy' = strategy
          /\ task_queue' = PQPop(task_queue).queue
          /\ next_mining_time' = next_mining_time
          /\ private_chain_tip' = private_chain_tip
          /\ current_block_id' = current_block_id
          /\ current_round' = current_round]_vars

\* A BlockGeneration task was popped off its node's deadline and dropped, in
\* a run that had mined a block and had a task put in from outside.
C3_Witness ==
    /\ injected
    /\ skipped
    /\ Len(blocks) >= 2

\* C4: when a Propagation task arrives and its block does not become the
\* recipient's current block, the recipient's deadline and its pending
\* BlockGeneration task stay as they are.
C4_UnadoptedArrivalKeepsMining ==
    [][(/\ tick' # tick
        /\ is_propagation(NextTask(Sim))
        /\ current_block_id[NextTask(Sim).ty.to] # NextTask(Sim).ty.block_id
        /\ current_block_id'[NextTask(Sim).ty.to]
               = current_block_id[NextTask(Sim).ty.to])
       => /\ next_mining_time'[NextTask(Sim).ty.to]
               = next_mining_time[NextTask(Sim).ty.to]
          /\ PendingMiningTasks(task_queue', NextTask(Sim).ty.to)
               = PendingMiningTasks(task_queue, NextTask(Sim).ty.to)]_vars

\* C5: the simulated time never decreases from one popped task to the next,
\* and no pending task is earlier than the current time.
C5_TimeNeverDecreases ==
    [][/\ current_time' >= current_time
       /\ \A task \in PQItems(task_queue') : task.time >= current_time']_vars

\* Time has advanced, and tasks are pending both at and after the current time.
C5_Witness ==
    /\ phase = "loop"
    /\ current_time > 0
    /\ \E a, b \in PQItems(task_queue) :
          a.time = current_time /\ b.time > current_time

\* C6: of the pending tasks with the same time, the one the queue took in
\* first is popped first.
C6_TiesPopInInsertionOrder ==
    [][tick' # tick =>
          \A i \in 1..Len(fifo) :
              fifo[i] = NextTask(Sim) =>
                  \A j \in 1..(i - 1) : fifo[j].time # fifo[i].time]_vars

\* C7: two runs with the same inputs pop the same tasks, stop together, and
\* end with the same pool and the same main chain.
C7_Determinism ==
    /\ phase = "loop" =>
          /\ LoopCondition(Sim, Cfg) <=> LoopCondition(twin.state, TwinCfg)
          /\ LoopCondition(Sim, Cfg) => NextTask(Sim) = NextTask(twin.state)
    /\ phase = "done" =>
          /\ blocks = twin.state.blocks
          /\ get_main_chain(blocks) = get_main_chain(twin.state.blocks)

(***************************************************************************)
(* Properties of the block pool.                                           *)
(***************************************************************************)
\* C8: every block but genesis has a parent in the pool, one height below
\* it; genesis is the only block without a parent.
C8_ParentIsOneBelow ==
    \A i \in 1..Len(blocks) :
        IF blocks[i].id = GENESIS_BLOCK_ID
        THEN blocks[i].prev_block_id = None
        ELSE /\ IsSome(blocks[i].prev_block_id)
             /\ IsSome(get_block(blocks, Unwrap(blocks[i].prev_block_id)))
             /\ BlockAt(blocks, Unwrap(blocks[i].prev_block_id)).height + 1
                   = blocks[i].height

\* The pool holds a block at height 2 and a fork at height 1.
C8_Witness ==
    /\ \E i \in 1..Len(blocks) : blocks[i].height = 2
    /\ \E i, j \in 1..Len(blocks) :
          i # j /\ blocks[i].height = 1 /\ blocks[j].height = 1

\* C9: the ids of the pool's blocks are pairwise distinct and are exactly
\* 0..len-1, and get(id) is the block whose id is id.
C9_IdsArePositions ==
    /\ \A i, j \in 1..Len(blocks) : blocks[i].id = blocks[j].id => i = j
    /\ {blocks[i].id : i \in 1..Len(blocks)} = 0..(Len(blocks) - 1)
    /\ \A id \in 0..(Len(blocks) - 1) :
          /\ IsSome(get_block(blocks, id))
          /\ BlockAt(blocks, id).id = id

\* Three blocks were mined, by more than one node.
C9_Witness ==
    /\ Len(blocks) >= 4
    /\ \E i, j \in 2..Len(blocks) : blocks[i].minter # blocks[j].minter

\* C10: the main chain starts with genesis, each of its elements is the
\* parent of the next, its last block is at max_height and its length is
\* max_height + 1.
C10_MainChainIsAPath ==
    LET chain == get_main_chain(blocks)
    IN  /\ Len(chain) = max_height(blocks) + 1
        /\ chain[1] = GENESIS_BLOCK_ID
        /\ \A k \in 1..(Len(chain) - 1) :
              BlockAt(blocks, chain[k + 1]).prev_block_id = Some(chain[k])
        /\ BlockAt(blocks, chain[Len(chain)]).height = max_height(blocks)

\* The main chain has three blocks and the pool a block off the main chain.
C10_Witness ==
    /\ Len(get_main_chain(blocks)) = 3
    /\ \E i \in 1..Len(blocks) :
          \A k \in 1..3 : get_main_chain(blocks)[k] # blocks[i].id

\* C11: a block enters the pool only in a step that pops a BlockGeneration
\* task at its node's deadline, so a task that was cancelled or dropped as
\* stale leaves no block behind, and the main chain holds pool blocks only.
C11_UnfiredTaskLeavesNoBlock ==
    [][/\ Len(blocks') # Len(blocks) =>
            /\ tick' # tick
            /\ is_block_generation(NextTask(Sim))
            /\ next_mining_time[NextTask(Sim).ty.minter]
                  = Some(NextTask(Sim).time)
            /\ Len(blocks') = Len(blocks) + 1
            /\ blocks'[Len(blocks')].minter = NextTask(Sim).ty.minter
            /\ blocks'[Len(blocks')].time = NextTask(Sim).time
       /\ \A k \in 1..Len(get_main_chain(blocks')) :
            IsSome(get_block(blocks', get_main_chain(blocks')[k]))]_vars

\* A stale BlockGeneration task was just dropped while a node stands
\* cancelled, and the main chain has grown.
C11_Witness ==
    /\ skipped
    /\ Len(get_main_chain(blocks)) >= 2
    /\ \E n \in NodeIds : next_mining_time[n] = None

(***************************************************************************)
(* Properties of the fork choice.                                          *)
(***************************************************************************)
\* The height of block id in the pool.
HeightOf(pool, id) == BlockAt(pool, id).height

\* A step that pops a Propagation task.
Arrival == tick' # tick /\ is_propagation(NextTask(Sim))

\* C12: when block b arrives at a node whose current block is c, the fork
\* choice takes b if b is higher and keeps c if b is lower; the height of a
\* node's current block never decreases.
C12_ForkChoiceByHeight ==
    [][/\ Arrival =>
            LET to == NextTask(Sim).ty.to
                b  == NextTask(Sim).ty.block_id
                c  == current_block_id[to]
                chosen == choose_mainchain(blocks, tie, b, c, to)
            IN  /\ HeightOf(blocks, b) > HeightOf(blocks, c) => chosen = b
                /\ HeightOf(blocks, b) < HeightOf(blocks, c) => chosen = c
       /\ \A n \in NodeIds :
            HeightOf(blocks', current_block_id'[n])
                >= HeightOf(blocks, current_block_id[n])]_vars

\* A node has just received a block lower than its current block, which it
\* kept, and another node has moved up to a received block.
C12_Witness ==
    /\ IsSome(last)
    /\ is_propagation(Unwrap(last).task)
    /\ HeightOf(blocks, Unwrap(last).task.ty.block_id)
          < HeightOf(blocks, Unwrap(last).node.current_block_id)
    /\ current_block_id[Unwrap(last).task.ty.to]
          = Unwrap(last).node.current_block_id
    /\ \E n \in NodeIds : HeightOf(blocks, current_block_id[n]) = 2

\* A step in which block b arrives at node `to` whose current block c is
\* another block of the same height.
TieArrival ==
    /\ Arrival
    /\ NextTask(Sim).ty.block_id # current_block_id[NextTask(Sim).ty.to]
    /\ HeightOf(blocks, NextTask(Sim).ty.block_id)
          = HeightOf(blocks, current_block_id[NextTask(Sim).ty.to])

\* The block the fork choice takes at the arrival the next step processes.
Chosen ==
    choose_mainchain(blocks, tie, NextTask(Sim).ty.block_id,
                     current_block_id[NextTask(Sim).ty.to], NextTask(Sim).ty.to)

\* C13: under the Random tie rule, when b arrives at a node whose current
\* block c has the same height and was not mined by the node, b is taken if
\* and only if c.rand < b.rand.
C13_RandomTieHigherRandWins ==
    [][(/\ TieArrival
        /\ tie = "Random"
        /\ BlockAt(blocks, current_block_id[NextTask(Sim).ty.to]).minter
              # NextTask(Sim).ty.to)
       => (Chosen = NextTask(Sim).ty.block_id
             <=> BlockAt(blocks, current_block_id[NextTask(Sim).ty.to]).rand
                    < BlockAt(blocks, NextTask(Sim).ty.block_id).rand)]_vars

\* C14: under the Time tie rule, when b arrives at a node whose current
\* block c has the same height and was not mined by the node, b is taken if
\* and only if c.time > b.time.
C14_TimeTieEarlierWins ==
    [][(/\ TieArrival
        /\ tie = "Time"
        /\ BlockAt(blocks, current_block_id[NextTask(Sim).ty.to]).minter
              # NextTask(Sim).ty.to)
       => (Chosen = NextTask(Sim).ty.block_id
             <=> BlockAt(blocks, current_block_id[NextTask(Sim).ty.to]).time
                    > BlockAt(blocks, NextTask(Sim).ty.block_id).time)]_vars

Recipient == strategy[NextTask(Sim).ty.to]
Received  == on_receiving_block(Recipient, NextTask(Sim).ty.block_id, Env(blocks))

\* C16: honest on_receiving_block(b): when b is higher than the strategy's
\* current block, the current block becomes b and the actions are exactly
\* one RestartMining on b; otherwise the current block is unchanged and
\* there is no action.  The engine installs the strategy's new state.
C16_HonestReceive ==
    [][(Arrival /\ Recipient.kind = "Honest") =>
         /\ IF HeightOf(blocks, NextTask(Sim).ty.block_id)
                 > HeightOf(blocks, Recipient.current_block_id)
            THEN /\ Received.strategy.current_block_id = NextTask(Sim).ty.block_id
                 /\ Received.actions = <<RestartMining(NextTask(Sim).ty.block_id)>>
            ELSE /\ Received.strategy.current_block_id = Recipient.current_block_id
                 /\ Received.actions = <<>>
         /\ strategy'[NextTask(Sim).ty.to] = Received.strategy]_vars

\* An honest node on a block of height 1 has just received another block of
\* height 1 and kept its own, after having moved up from genesis.
C16_Witness ==
    /\ IsSome(last)
    /\ is_propagation(Unwrap(last).task)
    /\ Unwrap(last).node.strategy.kind = "Honest"
    /\ Unwrap(last).node.strategy.current_block_id # GENESIS_BLOCK_ID
    /\ Unwrap(last).task.ty.block_id # Unwrap(last).node.strategy.current_block_id
    /\ HeightOf(blocks, Unwrap(last).task.ty.block_id)
          = HeightOf(blocks, Unwrap(last).node.strategy.current_block_id)
    /\ strategy[Unwrap(last).task.ty.to] = Unwrap(last).node.strategy

\* A step in which a BlockGeneration task of an honest node fires and a
\* block is mined; Mined is the new block, MinedActions what the node's
\* on_mining_block gives for it.
HonestMining ==
    /\ tick' # tick
    /\ is_block_generation(NextTask(Sim))
    /\ Len(blocks') = Len(blocks) + 1
    /\ strategy[NextTask(Sim).ty.minter].kind = "Honest"
Mined == blocks'[Len(blocks')]
MinedActions ==
    on_mining_block(strategy[NextTask(Sim).ty.minter], Mined.id, Env(blocks')).actions

\* The block node n mines on next.
MiningBase(tips, currents, n) ==
    IF IsSome(tips[n]) THEN Unwrap(tips[n]) ELSE currents[n]

\* C17: honest on_mining_block(b) returns one Propagate of b for every peer
\* and then exactly one RestartMining on b; the delivery of b to every other
\* node is then pending at the mining time plus the delay, a pending
\* delivery stays pending until it is popped, and the miner's next block is
\* built on b.
C17_HonestMine ==
    [][/\ HonestMining =>
            LET minter == NextTask(Sim).ty.minter
                n == Len(MinedActions)
            IN  /\ n >= 1
                /\ MinedActions[n] = RestartMining(Mined.id)
                /\ \A i \in 1..(n - 1) :
                      /\ MinedActions[i].kind = "Propagate"
                      /\ MinedActions[i].block_id = Mined.id
                /\ \A peer \in NodeIds \ {minter} :
                      /\ Cardinality({i \in 1..(n - 1) : MinedActions[i].to = peer}) = 1
                      /\ Task(Mined.time + delay, Propagation(minter, peer, Mined.id))
                            \in PQItems(task_queue')
                /\ MiningBase(private_chain_tip', current_block_id', minter) = Mined.id
       /\ \A task \in PQItems(task_queue) :
            is_propagation(task) =>
               \/ task \in PQItems(task_queue')
               \/ tick' # tick /\ task = NextTask(Sim)]_vars

(***************************************************************************)
(* Properties of the selfish strategy.                                     *)
(***************************************************************************)
\* Whether block a is block d or one of its ancestors in the pool.
RECURSIVE IsAncestorOrEqual(_, _, _)
IsAncestorOrEqual(pool, a, d) ==
    \/ a = d
    \/ /\ IsSome(BlockAt(pool, d).prev_block_id)
       /\ IsAncestorOrEqual(pool, a, Unwrap(BlockAt(pool, d).prev_block_id))

\* A step in which a selfish node receives a block.
SelfishArrival == Arrival /\ Recipient.kind = "Selfish"

\* C18: after each on_receiving_block call of a selfish miner,
\* private_branch_len = h(private_chain) - h(public_chain).
C18_SelfishBranchLength ==
    [][SelfishArrival =>
         Received.strategy.private_branch_len
            = HeightOf(blocks, Received.strategy.private_chain)
                 - HeightOf(blocks, Received.strategy.public_chain)]_vars

\* C19: after each on_receiving_block call of a selfish miner, public_chain
\* is private_chain or one of its ancestors.
C19_SelfishPublicIsAncestor ==
    [][SelfishArrival =>
         IsAncestorOrEqual(blocks, Received.strategy.public_chain,
                           Received.strategy.private_chain)]_vars

\* The last len blocks of the chain that ends in tip, as a set of ids.
RECURSIVE BranchBlocks(_, _, _)
BranchBlocks(pool, tip, len) ==
    IF len = 0 THEN {}
    ELSE {tip} \cup
         (IF IsSome(BlockAt(pool, tip).prev_block_id)
          THEN BranchBlocks(pool, Unwrap(BlockAt(pool, tip).prev_block_id), len - 1)
          ELSE {})

\* A step in which a selfish node mines a block.
SelfishMining ==
    /\ Len(blocks') = Len(blocks) + 1
    /\ Mined.minter \in NodeIds
    /\ strategy[Mined.minter].kind = "Selfish"
    /\ IsSome(last') /\ is_block_generation(Unwrap(last').task)

\* C20: selfish on_mining_block, delta_prev being h(private_chain) -
\* h(public_chain) before the update: when delta_prev = 0 and
\* private_branch_len becomes 2, the actions hold a Propagate of every block
\* of the private branch, each exactly once for every peer, older blocks
\* before newer ones, and private_branch_len becomes 0; otherwise there is
\* no Propagate.  Either way the actions end with the only RestartMining,
\* on the new private_chain, which is the mined block.
C20_SelfishMine ==
    [][SelfishMining =>
         LET minter == Mined.minter
             st     == strategy[minter]
             delta_prev == HeightOf(blocks, st.private_chain)
                              - HeightOf(blocks, st.public_chain)
             mined  == on_mining_block(st, Mined.id, Env(blocks'))
             n      == Len(mined.actions)
             branch == BranchBlocks(blocks', Mined.id, st.private_branch_len + 1)
         IN  /\ n >= 1
             /\ mined.strategy.private_chain = Mined.id
             /\ mined.actions[n] = RestartMining(Mined.id)
             /\ \A i \in 1..(n - 1) : mined.actions[i].kind = "Propagate"
             /\ IF delta_prev = 0 /\ st.private_branch_len + 1 = 2
                THEN /\ mined.strategy.private_branch_len = 0
                     /\ \A i \in 1..(n - 1) : mined.actions[i].block_id \in branch
                     /\ \A id \in branch : \A peer \in NodeIds \ {minter} :
                           Cardinality({i \in 1..(n - 1) :
                               mined.actions[i] = Propagate(id, peer)}) = 1
                     /\ \A i, j \in 1..(n - 1) :
                           i < j => HeightOf(blocks', mined.actions[i].block_id)
                                       <= HeightOf(blocks', mined.actions[j].block_id)
                ELSE n = 1]_vars

\* A step in which a selfish node receives the block another node has just
\* mined; Receiver is the node's strategy before the call, DeltaPrev its lead
\* before the call, Result what its on_receiving_block gives.
SelfishReceives ==
    /\ Len(blocks') = Len(blocks) + 1
    /\ IsSome(last')
    /\ is_propagation(Unwrap(last').task)
    /\ Unwrap(last').task.ty.block_id = Mined.id
    /\ strategy[Unwrap(last').task.ty.to].kind = "Selfish"
Receiver == strategy[Unwrap(last').task.ty.to]
DeltaPrev ==
    HeightOf(blocks, Receiver.private_chain) - HeightOf(blocks, Receiver.public_chain)
Result == on_receiving_block(Receiver, Mined.id, Env(blocks'))

\* The lead of the selfish strategy st, and the strategy before the last call.
Lead(st) == HeightOf(blocks, st.private_chain) - HeightOf(blocks, st.public_chain)
Before == Unwrap(last).node.strategy

\* C21: selfish on_receiving_block with delta_prev <= 0: afterwards
\* private_chain = public_chain and private_branch_len = 0, and the only
\* action is one RestartMining on the updated public_chain.
C21_SelfishReceiveAbandons ==
    [][(SelfishReceives /\ DeltaPrev <= 0) =>
         /\ Result.strategy.private_chain = Result.strategy.public_chain
         /\ Result.strategy.private_branch_len = 0
         /\ Result.actions = <<RestartMining(Result.strategy.public_chain)>>
         /\ strategy'[Unwrap(last').task.ty.to] = Result.strategy]_vars

\* A selfish miner in a race (lead 0 with one private block) has received a
\* higher block and has given its private block up.
C21_Witness ==
    /\ IsSome(last)
    /\ is_propagation(Unwrap(last).task)
    /\ Before.kind = "Selfish"
    /\ Lead(Before) = 0
    /\ Before.private_branch_len = 1
    /\ Before.private_chain # Before.public_chain
    /\ strategy[Unwrap(last).task.ty.to].private_chain = Unwrap(last).task.ty.block_id
    /\ strategy[Unwrap(last).task.ty.to].public_chain = Unwrap(last).task.ty.block_id
    /\ strategy[Unwrap(last).task.ty.to].private_branch_len = 0

\* C22: selfish on_receiving_block with delta_prev = 1: the actions are
\* Propagate actions of private_chain alone, exactly one for every peer,
\* there is no RestartMining, and private_chain is unchanged.
C22_SelfishReceiveRace ==
    [][(SelfishReceives /\ DeltaPrev = 1) =>
         /\ \A i \in 1..Len(Result.actions) :
               /\ Result.actions[i].kind = "Propagate"
               /\ Result.actions[i].block_id = Receiver.private_chain
         /\ \A peer \in NodeIds \ {Unwrap(last').task.ty.to} :
               Cardinality({i \in 1..Len(Result.actions) :
                               Result.actions[i].to = peer}) = 1
         /\ Result.strategy.private_chain = Receiver.private_chain
         /\ strategy'[Unwrap(last').task.ty.to] = Result.strategy]_vars

\* A selfish miner one block ahead has received a block of the height of its
\* private block and kept the private block.
C22_Witness ==
    /\ IsSome(last)
    /\ is_propagation(Unwrap(last).task)
    /\ Before.kind = "Selfish"
    /\ Lead(Before) = 1
    /\ HeightOf(blocks, Unwrap(last).task.ty.block_id)
          = HeightOf(blocks, Before.private_chain)
    /\ strategy[Unwrap(last).task.ty.to].private_chain = Before.private_chain
    /\ strategy[Unwrap(last).task.ty.to].public_chain = Unwrap(last).task.ty.block_id

\* The ids the actions of the receive publish.
Published == {Result.actions[i].block_id : i \in 1..Len(Result.actions)}

\* The private branch of the receiving miner before the call: the
\* private_branch_len blocks that end in private_chain.
PrivateBranch ==
    BranchBlocks(blocks, Receiver.private_chain, Receiver.private_branch_len)

\* C23: selfish on_receiving_block with delta_prev = 2: every action is a
\* Propagate, the blocks published are exactly the blocks of the private
\* branch, all of them the miner's own, every one of them goes to every
\* peer, and private_branch_len becomes 0.
C23_SelfishReceivePublishesBranch ==
    [][(SelfishReceives /\ DeltaPrev = 2) =>
         /\ \A i \in 1..Len(Result.actions) : Result.actions[i].kind = "Propagate"
         /\ Published = PrivateBranch
         /\ \A id \in Published :
               /\ BlockAt(blocks, id).minter = Unwrap(last').task.ty.to
               /\ \A peer \in NodeIds \ {Unwrap(last').task.ty.to} :
                     \E i \in 1..Len(Result.actions) :
                        Result.actions[i] = Propagate(id, peer)
         /\ Result.strategy.private_branch_len = 0
         /\ strategy'[Unwrap(last').task.ty.to] = Result.strategy]_vars

\* A selfish miner two private blocks ahead has received a block and its
\* private branch is empty afterwards.
C23_Witness ==
    /\ IsSome(last)
    /\ is_propagation(Unwrap(last).task)
    /\ Before.kind = "Selfish"
    /\ Lead(Before) = 2
    /\ Before.private_branch_len = 2
    /\ strategy[Unwrap(last).task.ty.to].private_branch_len = 0
    /\ strategy[Unwrap(last).task.ty.to].private_chain = Before.private_chain

\* C24: selfish on_receiving_block with delta_prev >= 3: the actions publish
\* exactly one block, once to every peer, and that block is the oldest block
\* of the private branch, a block the miner mined itself.
C24_SelfishReceivePublishesOldest ==
    [][(SelfishReceives /\ DeltaPrev >= 3) =>
         /\ \A i \in 1..Len(Result.actions) : Result.actions[i].kind = "Propagate"
         /\ Cardinality(Published) = 1
         /\ \A peer \in NodeIds \ {Unwrap(last').task.ty.to} :
               Cardinality({i \in 1..Len(Result.actions) :
                               Result.actions[i].to = peer}) = 1
         /\ \A id \in Published :
               /\ id \in PrivateBranch
               /\ BlockAt(blocks, id).minter = Unwrap(last').task.ty.to
               /\ \A other \in PrivateBranch :
                     HeightOf(blocks, id) <= HeightOf(blocks, other)]_vars

\* C25: when block b reaches a selfish miner, its public_chain becomes the
\* block the fork choice selects between public_chain and b: the higher
\* one, and on equal heights the one the run's tie rule selects, which
\* under the Random rule is the block with the higher rand (public_chain not
\* being a block the miner mined itself).
C25_SelfishPublicFollowsForkChoice ==
    [][SelfishArrival =>
         LET b  == NextTask(Sim).ty.block_id
             pc == Recipient.public_chain
             after == Received.strategy.public_chain
         IN  /\ HeightOf(blocks, b) > HeightOf(blocks, pc) => after = b
             /\ HeightOf(blocks, b) < HeightOf(blocks, pc) => after = pc
             /\ (/\ HeightOf(blocks, b) = HeightOf(blocks, pc)
                 /\ tie = "Longest") => after = pc
             /\ (/\ HeightOf(blocks, b) = HeightOf(blocks, pc)
                 /\ tie = "Random"
                 /\ BlockAt(blocks, pc).minter # NextTask(Sim).ty.to
                 /\ BlockAt(blocks, b).rand # BlockAt(blocks, pc).rand)
                => after = (IF BlockAt(blocks, b).rand > BlockAt(blocks, pc).rand
                            THEN b ELSE pc)]_vars

(***************************************************************************)
(* Properties of both strategies.                                          *)
(***************************************************************************)
\* Whether a callback's result cb is sound in pool: no unwrap() failed and
\* every Propagate names a block of the pool.
SoundActions(cb, pool) ==
    /\ ~cb.panic
    /\ \A i \in 1..Len(cb.actions) :
          cb.actions[i].kind = "Propagate" =>
             IsSome(get_block(pool, cb.actions[i].block_id))

\* A step of the engine in which a BlockGeneration task fires.
Mining ==
    /\ tick' # tick
    /\ is_block_generation(NextTask(Sim))
    /\ Len(blocks') = Len(blocks) + 1

\* C26: every Propagate a callback returns (honest or selfish, on mining or
\* on receiving) names a block that is in the pool, and no callback fails
\* on a missing block or a missing parent.
C26_CallbacksAreSound ==
    [][/\ Mining =>
            SoundActions(on_mining_block(strategy[NextTask(Sim).ty.minter],
                                         Mined.id, Env(blocks')), blocks')
       /\ Arrival => SoundActions(Received, blocks)
       /\ SelfishMining =>
            SoundActions(on_mining_block(strategy[Mined.minter], Mined.id,
                                         Env(blocks')), blocks')
       /\ SelfishReceives => SoundActions(Result, blocks')
       /\ ~panicked']_vars

\* A selfish miner two blocks ahead has received a block and published its
\* branch, and the run goes on.
C26_Witness ==
    /\ IsSome(last)
    /\ is_propagation(Unwrap(last).task)
    /\ Before.kind = "Selfish"
    /\ Lead(Before) = 2
    /\ Before.private_branch_len = 2
    /\ strategy[Unwrap(last).task.ty.to].private_branch_len = 0
    /\ tick # 0
    /\ ~panicked

(***************************************************************************)
(* Properties of the report and of the end of the run.                     *)
(***************************************************************************)
\* The sum of the numerators of the reward shares of the nodes 0 .. n - 1
\* (the shares have one denominator).
RECURSIVE SumShares(_, _)
SumShares(pool, n) ==
    IF n = 0 THEN 0 ELSE reward_share(pool, n - 1).num + SumShares(pool, n - 1)

\* C27: whenever the main chain has a block besides genesis, the reward
\* shares sum to 1: every block of the main chain but genesis is counted
\* for exactly one node, and the counts add up to the divisor of the
\* shares, which is the length of the main chain without genesis.
C27_RewardSharesSumToOne ==
    LET main_chain == get_main_chain(blocks)
        total == total_reward(blocks)
    IN  max_height(blocks) > 0 =>
           /\ \A k \in 2..Len(main_chain) :
                 Cardinality({n \in NodeIds :
                     BlockAt(blocks, main_chain[k]).minter = n
                     /\ rewards(blocks, n) >= 1}) = 1
           /\ total = Len(main_chain) - 1
           /\ total = max_height(blocks)
           /\ \A n \in NodeIds : reward_share(blocks, n).den = total
           /\ SumShares(blocks, num_nodes) = total

\* The run is over with a main chain of two blocks, one of either node.
C27_Witness ==
    /\ phase = "done"
    /\ max_height(blocks) = 2
    /\ \A n \in NodeIds : rewards(blocks, n) = 1

\* C28: when the loop has ended with current_round >= end_round (end_round
\* being at least 1), current_round is end_round, the pool's max_height()
\* is end_round, and the main chain has end_round blocks above genesis.
C28_ExitAtEndRound ==
    (phase = "done" /\ end_round >= 1 /\ current_round >= end_round) =>
       /\ current_round = end_round
       /\ max_height(blocks) = end_round
       /\ Len(get_main_chain(blocks)) - 1 = end_round

\* The loop has ended at end_round with a fork in the pool.
C28_Witness ==
    /\ phase = "done"
    /\ current_round >= end_round
    /\ end_round >= 1
    /\ Len(blocks) > end_round + 1
    /\ PQLen(task_queue) > 0

\* C29: with end_round = 0 the engine bootstraps and leaves the loop
\* without popping a task, and get_main_chain() is then [genesis].
C29_EndRoundZero ==
    (end_round = 0 /\ phase \in {"loop", "done"}) =>
       /\ ~LoopCondition(Sim, Cfg)
       /\ tick = 0
       /\ last = None
       /\ \A n \in NodeIds : IsSome(next_mining_time[n])
       /\ blocks = NewBlockchain.blocks
       /\ get_main_chain(blocks) = <<GENESIS_BLOCK_ID>>

\* A run with end_round = 0 is over and the bootstrapped tasks are still
\* in the queue.
C29_Witness ==
    /\ end_round = 0
    /\ phase = "done"
    /\ PQLen(task_queue) = num_nodes

\* C30: for end_round >= 1 the run reaches a block of height end_round
\* before the loop ends, and the queue is never empty before that: while
\* current_round is below end_round the loop has not ended and the queue
\* holds a task.
C30_RunReachesEndRound ==
    (phase \in {"loop", "done"} /\ end_round >= 1 /\ current_round < end_round) =>
       /\ phase = "loop"
       /\ PQLen(task_queue) > 0
       /\ max_height(blocks) < end_round

(***************************************************************************)
(* Difficulty.                                                             *)
(***************************************************************************)
\* The parent of a non-genesis block of the pool.
ParentOf(b) == BlockAt(blocks, Unwrap(b.prev_block_id))

NonGenesis == {i \in 2..Len(blocks) : IsSome(blocks[i].prev_block_id)}

IsRetargetHeight(height) == height % BTC_DAA_EPOCH = 0 /\ height >= BTC_DAA_EPOCH

\* C31: under the Bitcoin protocol every block's difficulty equals its
\* parent's, except at a height that is a positive multiple of 2016, where
\* it lies between a quarter of the parent's difficulty and four times it.
C31_BitcoinRetarget ==
    protocol = "Bitcoin" =>
       \A i \in NonGenesis :
          LET b == blocks[i]
              p == ParentOf(b)
          IN  IF IsRetargetHeight(b.height)
              THEN /\ 4 * b.difficulty >= p.difficulty
                   /\ b.difficulty <= 4 * p.difficulty
              ELSE b.difficulty = p.difficulty

\* A Bitcoin chain has passed its first retarget with blocks slow enough
\* to hit the lower clamp: the block of height 2016 has a quarter of its
\* parent's difficulty.
C31_Witness ==
    /\ protocol = "Bitcoin"
    /\ Len(blocks) > BTC_DAA_EPOCH + 1
    /\ LET b == blocks[BTC_DAA_EPOCH + 1]
       IN  /\ b.height = BTC_DAA_EPOCH
           /\ 4 * b.difficulty = ParentOf(b).difficulty
           /\ b.time - ParentOf(b).time = 3000

\* C32: under the Ethereum protocol a block whose parent is genesis has the
\* default difficulty; any other block's difficulty is its parent's plus
\* floor(parent / 2048) * max(1 - floor(dt / 10), -99), dt the whole seconds
\* between parent and grandparent, and so differs from its parent's by at
\* most floor(parent / 2048) * 99.
C32_EthereumRetarget ==
    protocol = "Ethereum" =>
       \A i \in NonGenesis :
          LET b == blocks[i]
              p == ParentOf(b)
          IN  IF p.height = 0
              THEN b.difficulty = EthereumDefaultDifficulty
              ELSE LET dt    == ((p.time - ParentOf(p).time) * MillisPerTick) \div 1000
                       unit  == p.difficulty.q
                       delta == WideMinus(b.difficulty, p.difficulty)
                   IN  /\ p.difficulty.r \in 0..(Limb - 1)
                       /\ delta = unit * Max(1 - (dt \div 10), -99)
                       /\ delta >= -(unit * 99)
                       /\ delta <= unit * 99

\* An Ethereum block follows a parent that came 1200 s after the
\* grandparent, and its difficulty is 99 units below its parent's.
C32_Witness ==
    /\ protocol = "Ethereum"
    /\ \E i \in NonGenesis :
          LET b == blocks[i]
              p == ParentOf(b)
          IN  /\ p.height > 0
              /\ p.time - ParentOf(p).time = 1200
              /\ WideMinus(b.difficulty, p.difficulty) = -(p.difficulty.q * 99)

(***************************************************************************)
(* Block times.                                                            *)
(***************************************************************************)
\* C33: after every event every non-genesis block is no earlier than its
\* parent: b.time >= parent.time.
C33_BlockNotBeforeParent ==
    \A i \in NonGenesis : blocks[i].time >= ParentOf(blocks[i]).time

\* The loop has mined a block strictly later than its parent, itself not
\* genesis.
C33_Witness ==
    /\ phase = "loop"
    /\ \E i \in NonGenesis :
          /\ ParentOf(blocks[i]).height > 0
          /\ blocks[i].time > ParentOf(blocks[i]).time

AllHonest == \A n \in NodeIds : strategy[n].kind = "Honest"

\* The ids of the pool that get_main_chain() lists.
OnMainChain ==
    LET main_chain == get_main_chain(blocks)
    IN  {main_chain[i] : i \in 1..Len(main_chain)}

\* C35: with only honest miners, delay 0 and the tie rule Longest, the run
\* leaves a single chain without orphans: at loop exit every block of the
\* pool lies on get_main_chain().
C35_HonestNoDelayNoOrphans ==
    (phase = "done" /\ AllHonest /\ delay = 0 /\ tie = "Longest") =>
       \A i \in 1..Len(blocks) : blocks[i].id \in OnMainChain

(***************************************************************************)
(* Profiles.                                                               *)
(***************************************************************************)
\* C36: a NetworkProfile written to JSON and read back has the same number
\* of nodes and, node by node, the same hashrate and the same strategy
\* variant with the same parameters.
C36_ProfileRoundTrip ==
    (IsSome(codec) /\ Unwrap(codec).stage = "read") =>
       LET profile == Unwrap(codec).profile
           loaded  == Unwrap(codec).loaded
       IN  /\ IsSome(loaded)
           /\ Len(Unwrap(loaded).nodes) = Len(profile.nodes)
           /\ \A i \in 1..Len(profile.nodes) :
                 LET before == profile.nodes[i]
                     after  == Unwrap(loaded).nodes[i]
                 IN  /\ after.hashrate = before.hashrate
                     /\ after.strategy.variant = before.strategy.variant
                     /\ after.strategy = before.strategy

\* The profile of the test of profile.rs has been written and read back:
\* an honest node of hashrate 1000 and a k-lead selfish node of hashrate
\* 2000 with k = 2, tagged "k_lead_selfish_mining" in the JSON.
C36_Witness ==
    /\ IsSome(codec)
    /\ Unwrap(codec).stage = "read"
    /\ Unwrap(codec).profile.nodes =
          <<[hashrate |-> 1000, strategy |-> [variant |-> "Honest"]],
            [hashrate |-> 2000, strategy |-> [variant |-> "KLeadSelfishMining", k |-> 2]]>>
    /\ Unwrap(Unwrap(codec).json).nodes[2].strategy =
          [type |-> "k_lead_selfish_mining", k |-> 2]

(***************************************************************************)
(* Mining never stops.                                                     *)
(***************************************************************************)
\* Node n has a deadline and the queue holds its BlockGeneration task for it.
IsMining(n) ==
    /\ IsSome(next_mining_time[n])
    /\ \E task \in PQItems(task_queue) :
          /\ is_block_generation(task)
          /\ task.ty.minter = n
          /\ task.time = Unwrap(next_mining_time[n])

\* C37: while the loop runs, after bootstrap and after every event, every
\* node has its mining deadline set and a BlockGeneration task pending.
C37_EveryNodeKeepsMining ==
    phase = "loop" => \A n \in NodeIds : IsMining(n)

(***************************************************************************)
(* The tip of an honest node.                                              *)
(***************************************************************************)
\* C38: after a callback of an honest node its strategy's current block is
\* at least as high as the block the callback was about and as the current
\* block before, so that it has the maximum height among the blocks the
\* node has mined or received; the node's next block, if it is mining, is
\* built on that current block; and when a node is mining on a block of its
\* own and another block of the same height arrives, the arrival does not
\* become its current block and it goes on mining on its own.
C38_HonestTipIsHighest ==
    [][/\ HonestMining =>
            LET n == NextTask(Sim).ty.minter
            IN  /\ HeightOf(blocks', strategy'[n].current_block_id) >= Mined.height
                /\ IsSome(next_mining_time'[n]) =>
                      MiningBase(private_chain_tip', current_block_id', n)
                         = strategy'[n].current_block_id
       /\ (Arrival /\ Recipient.kind = "Honest") =>
            LET n    == NextTask(Sim).ty.to
                b    == NextTask(Sim).ty.block_id
                base == MiningBase(private_chain_tip, current_block_id, n)
            IN  /\ HeightOf(blocks', strategy'[n].current_block_id)
                      >= HeightOf(blocks, b)
                /\ HeightOf(blocks', strategy'[n].current_block_id)
                      >= HeightOf(blocks, strategy[n].current_block_id)
                /\ IsSome(next_mining_time'[n]) =>
                      MiningBase(private_chain_tip', current_block_id', n)
                         = strategy'[n].current_block_id
                /\ (/\ BlockAt(blocks, base).minter = n
                    /\ b # base
                    /\ HeightOf(blocks, b) = HeightOf(blocks, base)) =>
                      /\ strategy'[n].current_block_id # b
                      /\ MiningBase(private_chain_tip', current_block_id', n) = base]_vars

(***************************************************************************)
(* Only mined blocks travel.                                               *)
(***************************************************************************)
\* The block ids a node's fields and its strategy's state hold.
TipsOf(n) ==
    {current_block_id[n]}
    \cup (IF IsSome(private_chain_tip[n]) THEN {Unwrap(private_chain_tip[n])} ELSE {})
    \cup (IF strategy[n].kind = "Honest" THEN {strategy[n].current_block_id}
          ELSE {strategy[n].public_chain, strategy[n].private_chain})

\* C39: every pending Propagation task carries a block that is in the pool,
\* where a block enters only when its BlockGeneration task fires, and is due
\* no earlier than the block's time; a delivery is popped no earlier than
\* the block's time; and every tip of a node and of its strategy is a block
\* of the pool.
C39_OnlyMinedBlocksTravel ==
    /\ \A task \in PQItems(task_queue) :
          is_propagation(task) =>
             /\ IsSome(get_block(blocks, task.ty.block_id))
             /\ task.time >= BlockAt(blocks, task.ty.block_id).time
    /\ (IsSome(last) /\ is_propagation(Unwrap(last).task)) =>
          /\ IsSome(get_block(blocks, Unwrap(last).task.ty.block_id))
          /\ Unwrap(last).task.time
                >= BlockAt(blocks, Unwrap(last).task.ty.block_id).time
    /\ \A n \in NodeIds : \A id \in TipsOf(n) : IsSome(get_block(blocks, id))

\* A selfish node's block is on its way to the other node, due after the
\* time it was mined at, and a delivery has just been popped.
C39_Witness ==
    /\ IsSome(last)
    /\ is_propagation(Unwrap(last).task)
    /\ \E task \in PQItems(task_queue) :
          /\ is_propagation(task)
          /\ task.ty.from # task.ty.to
          /\ strategy[task.ty.from].kind = "Selfish"
          /\ BlockAt(blocks, task.ty.block_id).minter = task.ty.from
          /\ task.time > BlockAt(blocks, task.ty.block_id).time

(***************************************************************************)
(* No event is lost.                                                       *)
(***************************************************************************)
\* C40: enqueuing loses no event: the bootstrap leaves one pending task for
\* every node, an honest node's mining step leaves the queue longer by the
\* tasks of its actions less the task popped, and a step removes no pending
\* task but the one it pops and the BlockGeneration tasks of the node it
\* acts on.
C40_NoEventLost ==
    [][/\ (phase = "new" /\ phase' = "loop") => PQLen(task_queue') = num_nodes
       /\ HonestMining =>
             PQLen(task_queue') = PQLen(task_queue) - 1 + Len(MinedActions)
       /\ tick' # tick =>
             \A task \in PQItems(PQPop(task_queue).queue) :
                (\/ is_propagation(task)
                 \/ task.ty.minter # ActingNode(NextTask(Sim)))
                   => task \in PQItems(task_queue')]_vars

====
